---------------------------- MODULE Spec2Model ----------------------------
(***************************************************************************)
(* A model of the regular-expression compiler of Lesk (module `relesk`):   *)
(* the recursive-descent parser that builds the followpos relation         *)
(* (parser.rs, group.rs, position.rs), the subset construction             *)
(* (Parser::compile, compile_transition, transition, trim_lazy) and the    *)
(* parts of the assembler that run after it (compiler.rs).                 *)
(*                                                                         *)
(* Representation.                                                         *)
(*  - A Char is its u16 code.  A regex is a sequence of byte codes.        *)
(*  - A Position is the record [hi, lo] of the two 32-bit halves of the    *)
(*    64-bit word: lo = bits 0..31 (index / accept id), hi = bits 32..63   *)
(*    (iteration in the low 16 bits of hi, flags and the lazy byte above). *)
(*    The derived order of Position(u64) is the order on (hi, lo).         *)
(*  - A Chars bitset is the set of the codes whose bit is set.             *)
(*  - A ValueCell<PositionSet> is a pointer.  Pointers are records of the  *)
(*    shape of a Position: the cell owned by follow_positions_map[k] has   *)
(*    pointer k, the start state's cell and the cells made by              *)
(*    ValueCell::new have pointers with a negative hi.                     *)
(***************************************************************************)
EXTENDS Integers, Naturals, Sequences, FiniteSets, TLC

(***************************************************************************)
(* Bytes of the regex syntax (character.rs: From<char> for Char).          *)
(***************************************************************************)
Byte ==
  [c \in {"NUL", "LF", "SP", "\"", "#", "$", "(", ")", "*", "+", ",", "-", ".",
          "0", "1", "2", "3", "4", "5", "6", "7", "8", "9", ":", "<", "=", ">",
          "?", "A", "B", "E", "Q", "Z", "[", "\\", "]", "^", "_",
          "a", "b", "c", "d", "e", "i", "j", "k", "m", "q", "s", "x", "z",
          "{", "|", "}"} |->
     CASE c = "NUL" -> 0   [] c = "LF" -> 10  [] c = "SP" -> 32
       [] c = "\"" -> 34   [] c = "#" -> 35   [] c = "$" -> 36
       [] c = "(" -> 40    [] c = ")" -> 41   [] c = "*" -> 42
       [] c = "+" -> 43    [] c = "," -> 44   [] c = "-" -> 45
       [] c = "." -> 46    [] c = "0" -> 48   [] c = "1" -> 49
       [] c = "2" -> 50    [] c = "3" -> 51   [] c = "4" -> 52
       [] c = "5" -> 53    [] c = "6" -> 54   [] c = "7" -> 55
       [] c = "8" -> 56    [] c = "9" -> 57   [] c = ":" -> 58
       [] c = "<" -> 60    [] c = "=" -> 61   [] c = ">" -> 62
       [] c = "?" -> 63    [] c = "A" -> 65   [] c = "B" -> 66
       [] c = "E" -> 69    [] c = "Q" -> 81   [] c = "Z" -> 90
       [] c = "[" -> 91    [] c = "\\" -> 92  [] c = "]" -> 93
       [] c = "^" -> 94    [] c = "_" -> 95   [] c = "a" -> 97
       [] c = "b" -> 98    [] c = "c" -> 99   [] c = "d" -> 100
       [] c = "e" -> 101   [] c = "i" -> 105  [] c = "j" -> 106
       [] c = "k" -> 107   [] c = "m" -> 109  [] c = "q" -> 113
       [] c = "s" -> 115   [] c = "x" -> 120  [] c = "z" -> 122
       [] c = "{" -> 123   [] c = "|" -> 124  [] c = "}" -> 125]

Asc(s) == Byte[s]

\* The regex given as a tuple of one-character strings.
Rx(t) == [i \in 1..Len(t) |-> Byte[t[i]]]

(***************************************************************************)
(* limits.rs                                                               *)
(***************************************************************************)
MAX_ITER == 65535
LazyMax == 255            \* Lazy8 = u8

(***************************************************************************)
(* character.rs                                                            *)
(***************************************************************************)
MetaMIN == 256
NonWordBoundary == 257
NonWordEnd == 258
BeginWordBegin == 259
EndWordBegin == 260
BeginWordEnd == 261
EndWordEnd == 262
BeginningOfLine == 263
EndOfLine == 264
BeginningOfBuffer == 265
EndOfBuffer == 266
UndentBoundary == 267
IndentBoundary == 268
DedentBoundary == 269

is_meta(c) == c > MetaMIN
Low8(c) == c % 256
is_ascii_upper(b) == b >= 65 /\ b <= 90
is_ascii_lower(b) == b >= 97 /\ b <= 122
is_alphabetic(c) == ~is_meta(c) /\ (is_ascii_upper(Low8(c)) \/ is_ascii_lower(Low8(c)))
is_uppercase(c) == ~is_meta(c) /\ is_ascii_upper(Low8(c))
is_digit(c) == ~is_meta(c) /\ Low8(c) >= 48 /\ Low8(c) <= 57
is_hexdigit(c) ==
  ~is_meta(c) /\ (\/ (Low8(c) >= 48 /\ Low8(c) <= 57)
                  \/ (Low8(c) >= 65 /\ Low8(c) <= 70)
                  \/ (Low8(c) >= 97 /\ Low8(c) <= 102))
is_whitespace(c) == ~is_meta(c) /\ Low8(c) \in {9, 10, 12, 13, 32}
is_alphanumeric(c) == is_alphabetic(c) \/ is_digit(c)
to_lowercase(c) ==
  IF is_meta(c) THEN c ELSE IF is_ascii_upper(Low8(c)) THEN Low8(c) + 32 ELSE Low8(c)
to_uppercase(c) ==
  IF is_meta(c) THEN c ELSE IF is_ascii_lower(Low8(c)) THEN Low8(c) - 32 ELSE Low8(c)
\* self.0 ^ 0b0010_0000 for a letter
toggle_case(c) ==
  IF is_alphabetic(c)
    THEN (IF (c \div 32) % 2 = 1 THEN c - 32 ELSE c + 32)
    ELSE c

\* ASCII_ESCAPES = "abtnvfr": index + 0x07, or -1 for None
try_from_escape(c) ==
  CASE c = 97 -> 7 [] c = 98 -> 8 [] c = 116 -> 9 [] c = 110 -> 10
    [] c = 118 -> 11 [] c = 102 -> 12 [] c = 114 -> 13 [] OTHER -> -1

(***************************************************************************)
(* position.rs.  hi holds bits 32..63, so a constant of the source at bit  *)
(* b is here 2^(b-32).                                                     *)
(***************************************************************************)
IterMod == 65536          \* ITER is 16 bits wide
TICKED == 1048576         \* 1 << 52
GREEDY == 2097152         \* 1 << 53
ANCHOR == 4194304         \* 1 << 54
ACCEPT == 8388608         \* 1 << 55
LAZY_SL == 16777216       \* 1 << 56

Pos(i) == [hi |-> 0, lo |-> i]
BitSet(hi, bit) == (hi \div bit) % 2 = 1
SetBit(hi, bit, b) ==
  IF b THEN (IF BitSet(hi, bit) THEN hi ELSE hi + bit)
       ELSE (IF BitSet(hi, bit) THEN hi - bit ELSE hi)

increment_iter(p, i) == [hi |-> p.hi + i, lo |-> p.lo]
set_ticked(p, b) == [hi |-> SetBit(p.hi, TICKED, b), lo |-> p.lo]
set_greedy(p, b) == [hi |-> SetBit(p.hi, GREEDY, b), lo |-> p.lo]
set_anchor(p, b) == [hi |-> SetBit(p.hi, ANCHOR, b), lo |-> p.lo]
set_accept(p, b) == [hi |-> SetBit(p.hi, ACCEPT, b), lo |-> p.lo]
\* set_lazy with a mask that clears the flags along with the lazy byte
set_lazy_over_flags(p, l) == [hi |-> (p.hi % TICKED) + l * LAZY_SL, lo |-> p.lo]
set_lazy(p, l) == [hi |-> (p.hi % LAZY_SL) + l * LAZY_SL, lo |-> p.lo]
index_with_iter(p) == [hi |-> p.hi % IterMod, lo |-> p.lo]
idx(p) == p.lo
accepts(p) == p.lo
iterations(p) == p.hi % IterMod
lazy(p) == p.hi \div LAZY_SL
is_ticked(p) == BitSet(p.hi, TICKED)
is_greedy(p) == BitSet(p.hi, GREEDY)
is_anchor(p) == BitSet(p.hi, ANCHOR)
is_accept(p) == BitSet(p.hi, ACCEPT)
is_lazy(p) == lazy(p) # 0

\* #[derive(Ord)] on Position(u64)
PosLess(p, q) == p.hi < q.hi \/ (p.hi = q.hi /\ p.lo < q.lo)
MinPos(S) == CHOOSE p \in S : \A q \in S : p = q \/ PosLess(p, q)

\* BTreeSet<Position>::iter(): the members in ascending order
RECURSIVE SortPos(_)
SortPos(S) == IF S = {} THEN <<>> ELSE <<MinPos(S)>> \o SortPos(S \ {MinPos(S)})

(***************************************************************************)
(* Parser state.  ps is the Parser struct during parse():                  *)
(*   regex, idx (cursor), follow (follow_positions_map), start_positions,  *)
(*   modifiers (one set of regex indices per mode), lookahead_map,         *)
(*   options, is_first_group, next_group_idx, subpattern_endpoints,        *)
(*   strings (the string-literal trie, a map from the bytes to the id),    *)
(*   group (self.group, the outermost group),                              *)
(*   err ("" or the RegexError / panic that ended the run) and             *)
(*   overflow_checks (the build profile: debug panics on integer           *)
(*   overflow, release wraps).                                             *)
(* A Group is the record g with the fields of group.rs.                    *)
(***************************************************************************)
R(ps, g) == [ps |-> ps, g |-> g]

\* Parser::at
at(ps, i) == IF i >= Len(ps.regex) THEN 0 ELSE ps.regex[i + 1]
\* Parser::c
cur(ps) == at(ps, ps.idx)
Adv(ps, n) == [ps EXCEPT !.idx = @ + n]
\* RegexError::emit panics: the first error ends the run
emit(ps, e) == IF ps.err = "" THEN [ps EXCEPT !.err = e] ELSE ps
Ok(ps) == ps.err = ""

\* Parser::escape_at: 0 stands for '\0'
escape_at(ps, loc) ==
  IF at(ps, loc) = ps.options.escape_character THEN Low8(at(ps, loc + 1)) ELSE 0

\* Parser::escapes_at(loc, escapes).is_some()
escapes_at(ps, loc, escapes) ==
  at(ps, loc) = ps.options.escape_character /\ Low8(at(ps, loc + 1)) \in escapes

\* Parser::find_at: index of the first c at or after i, or -1
find_at(ps, i, c) ==
  LET hits == {j \in i..(Len(ps.regex) - 1) : ps.regex[j + 1] = c}
  IN  IF hits = {} THEN -1 ELSE CHOOSE j \in hits : \A h \in hits : j <= h

\* Parser::follow_positions(key).extend(S): entry(key).or_default() then extend
FollowExtend(ps, key, S) ==
  [ps EXCEPT !.follow =
     IF key \in DOMAIN @ THEN [@ EXCEPT ![key] = @ \cup S] ELSE @ @@ (key :> S)]

\* the same for every key of a set: one extend(S) per key
FollowExtendAll(ps, keys, S) ==
  [ps EXCEPT !.follow =
     [k \in (DOMAIN @) \cup keys |->
        (IF k \in DOMAIN @ THEN @[k] ELSE {}) \cup (IF k \in keys THEN S ELSE {})]]

\* extend every entry of the map `more` into follow_positions_map
FollowMerge(ps, more) ==
  [ps EXCEPT !.follow =
     [k \in (DOMAIN @) \cup (DOMAIN more) |->
        (IF k \in DOMAIN @ THEN @[k] ELSE {}) \cup
        (IF k \in DOMAIN more THEN more[k] ELSE {})]]

\* Modifiers::set: a lowercase mode adds lo..hi-1, an uppercase one removes it
ModeField(m) ==
  CASE m \in {113, 81} -> "q" [] m \in {105, 73} -> "i" [] m \in {115, 83} -> "s"
    [] m \in {109, 77} -> "m" [] m \in {120, 88} -> "x" [] OTHER -> "none"
modifiers_set(mods, m, lo, hi) ==
  IF is_ascii_lower(m)
    THEN [mods EXCEPT ![ModeField(m)] = @ \cup (lo..(hi - 1))]
    ELSE [mods EXCEPT ![ModeField(m)] = @ \ (lo..(hi - 1))]
\* Modifiers::is_set
is_set(mods, i, field) == i \in mods[field]

(***************************************************************************)
(* group.rs                                                                *)
(***************************************************************************)
NewGroup(gidx, lazy_index, first) ==
  [idx |-> gidx, first_positions |-> {}, last_positions |-> {}, lazy_set |-> {},
   nullable |-> FALSE, iteration |-> 0, lazy_index |-> lazy_index,
   is_first_group |-> first]

\* parser::greedify
greedify(S) == {IF lazy(p) # 0 THEN p ELSE set_greedy(p, TRUE) : p \in S}

\* Group::lazify
lazify(g, S) ==
  IF g.lazy_set = {} THEN S
  ELSE IF S = {} THEN {}
  ELSE {set_lazy(p, l) : p \in S, l \in g.lazy_set}

\* Group::lazify_own_set(TargetSet::First)
lazify_own_set_first(g) ==
  IF g.first_positions = {} \/ g.lazy_set = {} THEN g
  ELSE [g EXCEPT !.first_positions = {set_lazy(p, l) : p \in @, l \in g.lazy_set}]

(***************************************************************************)
(* parser.rs: parse_esc and parse_char_class                               *)
(***************************************************************************)
Esc(ps, c, chars) == [ps |-> ps, c |-> c, chars |-> chars]

\* one round of the octal loop of parse_esc
OctStep(ps, st) ==
  IF st.stop \/ ~(st.c < 32 /\ st.d >= 48 /\ st.d <= 55)
    THEN [st EXCEPT !.stop = TRUE]
    ELSE [c |-> st.c * 8 + st.d - 48, d |-> at(ps, st.idx + 1),
          idx |-> st.idx + 1, stop |-> FALSE]

\* one round of the hexadecimal loop: it stops AT a hex digit, and on any
\* other byte evaluates c.0 << 4 + (digit value), which is 0 unless the
\* subtraction or the shift overflows (a panic under overflow checks)
HexStep(ps, st) ==
  IF st.stop \/ is_hexdigit(at(ps, st.idx))
    THEN [st EXCEPT !.stop = TRUE]
    ELSE [idx |-> st.idx + 1, stop |-> FALSE,
          panic |-> st.panic \/ (ps.overflow_checks /\ at(ps, st.idx) \notin {64, 96})]

\* "ascii" is the only POSIX class name the bytes of the model can spell
AsciiName == <<97, 115, 99, 105, 105>>
parse_char_class(ps) ==
  LET n == Len(ps.regex)
      i == ps.idx
  IN  IF i + 5 > n THEN Esc(emit(ps, "PanicSlice"), 0, {})
      ELSE IF [k \in 1..5 |-> to_lowercase(ps.regex[i + k])] = AsciiName
        THEN Esc(Adv(ps, 5), 0, 0..127)
      ELSE IF i + 6 > n THEN Esc(emit(ps, "PanicSlice"), 0, {})
      ELSE Esc(emit(ps, "InvalidClass"), 0, {})

\* chars::escape_to_index(c).is_some() for the escapes parse_esc passes on
is_posix_escape(c) == c \in {115, 83, 88, 104, 72, 100, 68, 108, 76, 85, 119, 87}

AllBytes == 0..255
\* Chars::flip complements the 256 byte bits and leaves the meta bits
flip(S) == (AllBytes \ S) \cup (S \ AllBytes)

parse_esc(ps0, has, chars0) ==
  LET ps1 == Adv(ps0, 1)
      c == cur(ps1)
      fin(ps, cc, chars) ==
        Esc(ps, cc, IF has /\ ~is_meta(cc) THEN chars \cup {cc} ELSE chars)
  IN
  CASE c = 48 ->
         LET s0 == [c |-> 0, d |-> at(ps1, ps1.idx + 1), idx |-> ps1.idx + 1,
                    stop |-> FALSE]
             s3 == OctStep(ps1, OctStep(ps1, OctStep(ps1, s0)))
         IN  fin([ps1 EXCEPT !.idx = s3.idx], s3.c, chars0)
    [] c \in {120, 117} ->
         LET ps2 == Adv(ps1, 1)
             curly == cur(ps2) = 123
             ps3 == IF curly
                      THEN Adv(IF at(ps2, ps2.idx + 3) # 125
                                 THEN emit(ps2, "InvalidEscape") ELSE ps2, 1)
                      ELSE ps2
             s2 == HexStep(ps3, HexStep(ps3, [idx |-> ps3.idx, stop |-> FALSE,
                                              panic |-> FALSE]))
             ps4 == [ps3 EXCEPT !.idx = s2.idx + (IF curly THEN 1 ELSE 0)]
         IN  fin(IF s2.panic THEN emit(ps4, "PanicOverflow") ELSE ps4, 0, chars0)
    [] c = 99 -> fin(Adv(ps1, 2), at(ps1, ps1.idx + 1) % 32, chars0)
    [] c = 101 -> fin(Adv(ps1, 1), 27, chars0)
    [] c = 78 ->
         fin(Adv(ps1, 1), EndOfLine,
             IF has THEN chars0 \cup (0..9) \cup (11..255) ELSE chars0)
    [] c \in {112, 80} /\ at(ps1, ps1.idx + 1) = 123 ->
         LET ps2 == Adv(ps1, 2)
         IN  IF has
               THEN LET cls == parse_char_class(ps2)
                        u == chars0 \cup cls.chars
                        ch == IF c = 80 THEN flip(u) ELSE u
                    IN  IF cur(cls.ps) = 125
                          THEN fin(Adv(cls.ps, 1), EndOfLine, ch)
                          ELSE fin(emit(cls.ps, "InvalidEscape"), EndOfLine, ch)
               ELSE LET stop == {j \in (ps2.idx + 1)..Len(ps2.regex) :
                                   at(ps2, j) \in {0, 125}}
                        j0 == CHOOSE j \in stop : \A k \in stop : j <= k
                    IN  IF stop = {}
                          THEN fin(emit(ps2, "InvalidEscape"), EndOfLine, chars0)
                          ELSE IF at(ps2, j0) = 125
                            THEN fin([ps2 EXCEPT !.idx = j0 + 1], EndOfLine, chars0)
                            ELSE fin(emit([ps2 EXCEPT !.idx = j0], "InvalidEscape"),
                                     EndOfLine, chars0)
    [] c = 95 -> fin(ps1, c, chars0)
    [] OTHER ->
         \* add_posix_class ORs the class into a copy of the caller's Chars
         LET e == try_from_escape(c)
             cc == IF e # -1 THEN e ELSE IF is_posix_escape(c) THEN EndOfLine ELSE c
         IN  fin(Adv(ps1, 1), cc, chars0)

(***************************************************************************)
(* parser.rs: parse_iterated.  W is the u16 product of the build: under    *)
(* overflow checks a product above u16::MAX has already panicked, without  *)
(* them it wraps.                                                          *)
(***************************************************************************)
W(ps, x) == IF ps.overflow_checks THEN x ELSE x % IterMod

\* Group::increment_lazy_index, then lazy_set.insert(lazy_index)
increment_lazy_index(ps, g) ==
  IF g.lazy_index + 1 > LazyMax
    THEN R(emit(ps, "ExceedsLimits"), g)
    ELSE R([ps EXCEPT !.lazy_tags = Append(@, <<ps.idx, g.lazy_index + 1>>)],
           [g EXCEPT !.lazy_index = @ + 1, !.lazy_set = @ \cup {g.lazy_index + 1}])

\* Parser::parse_digit: cr() up to seven times while the byte is a digit
RECURSIVE DigitLoop(_, _, _, _)
DigitLoop(ps, i, k, left) ==
  IF left = 0 THEN [idx |-> i, k |-> k]
  ELSE IF ~is_digit(at(ps, i + 1)) THEN [idx |-> i + 1, k |-> k]
  ELSE DigitLoop(ps, i + 1, 10 * k + (at(ps, i + 1) - 48), left - 1)
parse_digit(ps) ==
  LET d == DigitLoop(ps, ps.idx, 0, 7)
  IN  [ps |-> [ps EXCEPT !.idx = d.idx], k |-> d.k]

\* the first index at or after i that holds no whitespace
RECURSIVE SkipWs(_, _)
SkipWs(ps, i) == IF is_whitespace(at(ps, i)) THEN SkipWs(ps, i + 1) ELSE i

\* the `*`, `+`, `?` arm of the loop of parse_iterated: the follow
\* positions, once the laziness is settled
StarPlusFollow(ps2, g2, c, keys) ==
  IF ~Ok(ps2) THEN R(ps2, g2)
  ELSE IF c = 43 /\ ~g2.nullable /\ g2.lazy_set # {}
    THEN R(FollowExtendAll(ps2, keys, lazify(g2, g2.first_positions)),
           [g2 EXCEPT !.first_positions = @ \cup lazify(g2, @)])
  ELSE IF c \in {42, 43} THEN R(FollowExtendAll(ps2, keys, g2.first_positions), g2)
  ELSE R(ps2, g2)

StarPlusKeys(ps2, g2, c) ==
  StarPlusFollow(ps2, g2, c, {index_with_iter(p) : p \in g2.last_positions})

\* the lazy arm: li is the result of increment_lazy_index
StarPlusLazy(li, c) ==
  StarPlusKeys(Adv(li.ps, 1),
               IF li.g.nullable THEN lazify_own_set_first(li.g) ELSE li.g, c)

StarPlusNext(ps1, g1, c) ==
  IF cur(ps1) = 63 THEN StarPlusLazy(increment_lazy_index(ps1, g1), c)
  ELSE StarPlusKeys(ps1, [g1 EXCEPT !.first_positions = greedify(@)], c)

StarPlusOpt(ps0, g0, c) ==
  StarPlusNext(Adv(ps0, 1),
               IF c \in {42, 63} THEN [g0 EXCEPT !.nullable = TRUE] ELSE g0, c)

\* the body of `else if m > 0` of the `{n,m}` arm: the virtual unrolling.
\* more_follow_positions: the follow positions at or after the start of
\* the group, once for each further iteration
UnrollMore(ps, it, m, orig, K) ==
  FollowMerge(ps,
    [key \in {increment_iter(q, W(ps, it * (i + 1))) : q \in K, i \in 0..(m - 2)} |->
       UNION {{increment_iter(p, W(ps, it * (i + 1))) : p \in ps.follow[q]} :
                <<q, i>> \in {qi \in K \X (0..(m - 2)) :
                                increment_iter(qi[1], W(ps, it * (qi[2] + 1))) = key}}])

\* m-1 times virtual concatenation
UnrollCat(ps0, ps1, g, m, fpp) ==
  FollowMerge(ps1,
    [key \in (IF fpp = {} THEN {}
              ELSE {increment_iter(index_with_iter(k), W(ps0, g.iteration * i)) :
                      k \in g.last_positions, i \in 0..(m - 2)}) |->
       {increment_iter(j, W(ps0, g.iteration * (i + 1))) :
          j \in fpp,
          i \in {i \in 0..(m - 2) : \E k \in g.last_positions :
                    increment_iter(index_with_iter(k), W(ps0, g.iteration * i)) = key}}])

\* the closing loop of {n,}
UnrollOpen(ps0, ps2, g, m, unlimited, fpp) ==
  IF unlimited /\ fpp # {}
    THEN FollowExtendAll(ps2,
           {increment_iter(index_with_iter(k), W(ps0, g.iteration * (m - 1))) :
              k \in g.last_positions},
           {increment_iter(j, W(ps0, g.iteration * (m - 1))) : j \in fpp})
    ELSE ps2

\* the first and last positions of the unrolled group, and its iteration
UnrollGroup(ps, g, n, m, old_nullable, fpp) ==
  [g EXCEPT !.first_positions =
              IF old_nullable
                THEN @ \cup {increment_iter(k, W(ps, g.iteration * i)) :
                               k \in fpp, i \in 1..(m - 1)}
                ELSE @,
            !.last_positions =
              {increment_iter(k, W(ps, g.iteration * i)) :
                 k \in @, i \in (IF g.nullable THEN 0 ELSE n - 1)..(m - 1)},
            !.iteration = W(ps, @ * m)]

Unroll(ps, g, n, m, unlimited, old_nullable, fpp, orig) ==
  IF ps.overflow_checks /\ g.iteration * m > MAX_ITER
    THEN R(emit(ps, "PanicOverflow"), g)
  ELSE IF W(ps, g.iteration * m) > MAX_ITER
    THEN R(emit(ps, "ExceedsLimits"), g)
  ELSE R(UnrollOpen(ps,
           UnrollCat(ps,
             UnrollMore(ps, g.iteration, m, orig,
                        {q \in DOMAIN ps.follow : idx(q) >= orig /\ ps.follow[q] # {}}),
             g, m, fpp),
           g, m, unlimited, fpp),
         UnrollGroup(ps, g, n, m, old_nullable, fpp))

\* the `{` arm of the loop of parse_iterated, after the closing brace and
\* the lazy mark: what the repeat does to the group
RepeatApply(ps4, g2, n, m, unlimited, old_nullable, fpp, orig) ==
  IF ~Ok(ps4) THEN R(ps4, g2)
  ELSE IF g2.nullable /\ unlimited
    THEN R(FollowExtendAll(ps4, {index_with_iter(p) : p \in g2.last_positions}, fpp), g2)
  ELSE IF m > 0
    THEN Unroll(ps4, g2, n, m, unlimited, old_nullable, fpp, orig)
  ELSE R(ps4, [g2 EXCEPT !.first_positions = {}, !.last_positions = {}, !.lazy_set = {}])

RepeatFirst(ps4, g2, n, m, unlimited, old_nullable, orig) ==
  RepeatApply(ps4, g2, n, m, unlimited, old_nullable,
              IF ~g2.nullable /\ g2.lazy_set # {}
                THEN lazify(g2, g2.first_positions) ELSE g2.first_positions,
              orig)

\* the lazy arm: li is the result of increment_lazy_index
RepeatLazy(li, n, m, unlimited, old_nullable, orig) ==
  RepeatFirst(Adv(li.ps, 1),
              IF li.g.nullable THEN lazify_own_set_first(li.g) ELSE li.g,
              n, m, unlimited, old_nullable, orig)

RepeatMark(ps3, g1, n, m, unlimited, old_nullable, orig) ==
  IF cur(ps3) = 63
    THEN RepeatLazy(increment_lazy_index(ps3, g1), n, m, unlimited, old_nullable, orig)
    ELSE RepeatFirst(ps3,
                     IF n < m /\ g1.lazy_set = {}
                       THEN [g1 EXCEPT !.first_positions = greedify(@)] ELSE g1,
                     n, m, unlimited, old_nullable, orig)

\* the numbers are read: ps2 is at the closing brace
RepeatBrace(ps2, g0, n, m, unlimited, orig) ==
  IF cur(ps2) # 125 THEN R(emit(ps2, "InvalidRepeat"), g0)
  ELSE RepeatMark(Adv(IF n > m THEN emit(ps2, "InvalidRepeat") ELSE ps2, 1),
                  IF n = 0 THEN [g0 EXCEPT !.nullable = TRUE] ELSE g0,
                  n, m, unlimited, g0.nullable, orig)

\* d2 is the second number, read where there is one
RepeatMax(ps1, g0, n, comma, hasM, d2, orig) ==
  RepeatBrace(IF hasM THEN d2.ps ELSE IF comma THEN Adv(ps1, 1) ELSE ps1,
              g0, n, IF hasM THEN d2.k % IterMod ELSE n, comma /\ ~hasM, orig)

RepeatComma(ps1, g0, n, orig) ==
  IF ~Ok(ps1) THEN R(ps1, g0)
  ELSE RepeatMax(ps1, g0, n, cur(ps1) = 44,
                 cur(ps1) = 44 /\ is_digit(at(ps1, ps1.idx + 1)),
                 parse_digit(ps1), orig)

\* d1 is the first number
RepeatMin(d1, g0, orig) ==
  RepeatComma(IF d1.k > MAX_ITER THEN emit(d1.ps, "ExceedsLimits") ELSE d1.ps,
              g0, d1.k, orig)

Repeat(ps0, g0, orig) == RepeatMin(parse_digit(ps0), g0, orig)

(***************************************************************************)
(* parser.rs: the recursive descent                                        *)
(*   parse_alternations -> parse_anchors -> parse_iterated -> parse_grouped *)
(* Every operator takes the parser state and the group and returns both.   *)
(***************************************************************************)
RECURSIVE parse_alternations(_, _)
RECURSIVE parse_anchors(_, _)
RECURSIVE parse_iterated(_, _)
RECURSIVE parse_grouped(_, _)
RECURSIVE AltLoop(_, _, _)
RECURSIVE AltMerge(_, _)
RECURSIVE SeqLoop(_, _, _)
RECURSIVE SeqLazy(_, _)
RECURSIVE SeqJoin(_, _, _)
RECURSIVE QuantLoop(_, _, _)
RECURSIVE QuantNext(_, _)
RECURSIVE AnchorLoop(_, _)
RECURSIVE AnchorFinish(_, _, _)
RECURSIVE ModifierScan(_, _)
RECURSIVE ModifierApply(_, _, _)
RECURSIVE BracketLoop(_, _)
RECURSIVE QuoteLoop(_, _, _, _)

Max(a, b) == IF a >= b THEN a ELSE b

\* the `while self.c() == '|'` loop of parse_alternations; r is what
\* parse_anchors returned for the next alternative
AltMerge(g, r) ==
  AltLoop(r.ps,
          [g EXCEPT !.first_positions = @ \cup r.g.first_positions,
                    !.last_positions = @ \cup r.g.last_positions,
                    !.lazy_set = @ \cup r.g.lazy_set,
                    !.nullable = r.g.nullable \/ @,
                    !.iteration = Max(r.g.iteration, @)],
          r.g)

AltLoop(ps, g, ng) ==
  IF ~Ok(ps) \/ cur(ps) # 124 THEN R(ps, g)
  ELSE AltMerge(g, parse_anchors(Adv(ps, 1), ng))

AltFirst(r) == AltLoop(r.ps, r.g, NewGroup(r.g.idx, r.g.lazy_index, FALSE))

parse_alternations(ps, g) == AltFirst(parse_anchors(ps, g))

\* the leading-anchor loop of parse_anchors; st = [ps, anchors]
AnchorLoop(ps0, anchors) ==
  LET ps == IF ps0.options.x_freespacing
              THEN [ps0 EXCEPT !.idx = SkipWs(ps0, ps0.idx)] ELSE ps0
  IN  IF cur(ps) = 94
        \* Position(self.ci().0 as u64): the code of the byte, not its index
        THEN AnchorLoop([Adv(ps, 1) EXCEPT !.is_first_group = FALSE],
                        anchors \cup {Pos(cur(ps))})
      ELSE IF escapes_at(ps, ps.idx, {65, 66, 98, 60, 62})
        THEN AnchorLoop([Adv(ps, 2) EXCEPT !.is_first_group = FALSE],
                        anchors \cup {Pos(ps.idx)})
      ELSE IF escapes_at(ps, ps.idx, {105, 106})
        THEN [ps |-> [ps EXCEPT !.is_first_group = FALSE], anchors |-> anchors]
      ELSE [ps |-> ps, anchors |-> anchors]

\* DefaultHashMap index: the default (no ranges) for a missing key
lookahead_at(ps, key) ==
  IF key \in DOMAIN ps.lookahead_map THEN ps.lookahead_map[key] ELSE {}

\* the closing `for p in anchor_positions` loop; todo = the anchors in order
AnchorFinish(ps, g, todo) ==
  IF todo = <<>> THEN R(ps, g)
  ELSE
    LET p == Head(todo)
        la == {k \in g.last_positions :
                 at(ps, idx(k)) = 41 /\ idx(k) \in lookahead_at(ps, g.idx)}
        ps1 == IF la = {} THEN ps ELSE FollowExtend(ps, index_with_iter(p), la)
        add == [key \in {index_with_iter(k) : k \in g.last_positions} |->
                  {set_anchor(p, ~g.nullable \/ index_with_iter(k) # index_with_iter(p)) :
                     k \in {k \in g.last_positions : index_with_iter(k) = key}}]
        ps2 == FollowMerge(ps1, add)
    IN  AnchorFinish(ps2,
                     [g EXCEPT !.last_positions = {p},
                               !.first_positions = IF g.nullable THEN @ \cup {p} ELSE @,
                               !.nullable = FALSE],
                     Tail(todo))

\* a concatenation that takes the first positions of the right side
\* whether or not the left side is nullable
SeqGroupFirstOfBoth(g, n1) ==
  [g EXCEPT !.first_positions = @ \cup n1.first_positions,
            !.last_positions = IF n1.nullable THEN @ \cup n1.last_positions
                               ELSE n1.last_positions,
            !.lazy_set = IF n1.nullable THEN @ \cup n1.lazy_set ELSE n1.lazy_set,
            !.nullable = IF n1.nullable THEN @ ELSE FALSE,
            !.iteration = Max(n1.iteration, @)]

\* the concatenation loop of parse_anchors: the group after the next
\* group n1 is appended to it
SeqGroup(g, n1) ==
  [g EXCEPT !.first_positions = IF g.nullable THEN @ \cup n1.first_positions ELSE @,
            !.last_positions = IF n1.nullable THEN @ \cup n1.last_positions
                               ELSE n1.last_positions,
            !.lazy_set = IF n1.nullable THEN @ \cup n1.lazy_set ELSE n1.lazy_set,
            !.nullable = IF n1.nullable THEN @ ELSE FALSE,
            !.iteration = Max(n1.iteration, @)]

\* the next group after the swap of the last positions and the lazy set
SeqRest(g, n1) ==
  IF n1.nullable THEN n1
  ELSE [n1 EXCEPT !.last_positions = g.last_positions, !.lazy_set = g.lazy_set]

SeqJoin(g, r, n1) ==
  IF ~Ok(r.ps) THEN R(r.ps, g)
  ELSE SeqLoop(FollowExtendAll(r.ps, {index_with_iter(p) : p \in g.last_positions},
                               n1.first_positions),
               SeqGroup(g, n1), SeqRest(g, n1))

\* r is what parse_iterated returned for the next group
SeqLazy(g, r) ==
  SeqJoin(g, r, IF g.lazy_set # {}
                  THEN [r.g EXCEPT !.first_positions = @ \cup lazify(g, @)]
                  ELSE r.g)

SeqLoop(ps, g, ng) ==
  IF ~Ok(ps) \/ cur(ps) \in {0, 124, 41} THEN R(ps, g)
  ELSE SeqLazy(g, parse_iterated(ps, ng))

\* parse_anchors: a = the leading anchors, r1 = the first group, r2 = the
\* concatenation
AnchorsEnd(a, r2) ==
  IF ~Ok(r2.ps) THEN r2 ELSE AnchorFinish(r2.ps, r2.g, SortPos(a.anchors))

AnchorsSeq(a, r1) ==
  AnchorsEnd(a, SeqLoop(r1.ps, r1.g, NewGroup(r1.g.idx, r1.g.lazy_index, FALSE)))

AnchorsFirst(a, g) == AnchorsSeq(a, parse_iterated(a.ps, g))

parse_anchors(ps, g) ==
  AnchorsFirst(IF g.is_first_group THEN AnchorLoop(ps, {})
               ELSE [ps |-> ps, anchors |-> {}], g)

\* the quantifier loop of parse_iterated
QuantNext(r, orig) == QuantLoop(r.ps, r.g, orig)

QuantLoop(ps, g, orig) ==
  IF ~Ok(ps) THEN R(ps, g)
  ELSE IF cur(ps) \in {42, 43, 63} THEN QuantNext(StarPlusOpt(ps, g, cur(ps)), orig)
  ELSE IF cur(ps) = 123 THEN QuantNext(Repeat(ps, g, orig), orig)
  ELSE R(ps, g)

\* r is what parse_grouped returned
IteratedQuant(r, orig) ==
  QuantLoop(IF r.ps.options.x_freespacing
              THEN [r.ps EXCEPT !.idx = SkipWs(r.ps, r.ps.idx)] ELSE r.ps,
            r.g, orig)

parse_iterated(ps, g) == IteratedQuant(parse_grouped(ps, g), ps.idx)

\* first loop of the (?imsqx-imsqx: arm: validate and set q / x
ModifierScan(ps, active) ==
  LET c == cur(ps)
      ps1 == CASE c = 45 -> ps
               [] c = 113 -> [ps EXCEPT !.options.quote_with_x = active]
               [] c = 120 -> [ps EXCEPT !.options.x_freespacing = active]
               [] c \notin {105, 109, 115} -> emit(ps, "InvalidModifier")
               [] OTHER -> ps
      ps2 == Adv(ps1, 1)
  IN  IF ~Ok(ps1) \/ cur(ps2) \in {0, 58, 41} THEN ps2
      ELSE ModifierScan(ps2, active /\ c # 45)

\* second loop: record the i / m / s ranges; returns [ps, c] with the
\* terminator in c
ModifierApply(ps, ms, active) ==
  LET c == at(ps, ms)
      ps1 == IF c \notin {45, 0, 113, 120, 58, 41}
               THEN [ps EXCEPT !.modifiers =
                       modifiers_set(@, IF active THEN c ELSE to_uppercase(c),
                                     ms + 1, ps.idx)]
               ELSE ps
  IN  IF c \in {0, 58, 41} THEN [ps |-> ps1, c |-> c]
      ELSE ModifierApply(ps1, ms + 1, active /\ c # 45)

\* the scan of a bracket list in parse_grouped
BracketLoop(ps, c) ==
  IF c = 0 THEN ps
  ELSE
    LET closing == find_at(ps, ps.idx + 2, 58)
        ps1 == IF c = 91 /\ at(ps, ps.idx + 1) = 58
                 THEN (IF closing # -1 /\ at(ps, closing + 1) = 93
                         THEN [ps EXCEPT !.idx = closing + 1] ELSE ps)
                 ELSE IF c = ps.options.escape_character /\ ~ps.options.bracket_escapes
                   THEN Adv(ps, 1)
                   ELSE ps
        ps2 == Adv(ps1, 1)
    IN  IF cur(ps2) = 93 THEN ps2 ELSE BracketLoop(ps2, cur(ps2))

\* the loop over the bytes of a quotation; returns [ps, p]
QuoteLoop(ps, p, c, dq) ==
  LET ps1 == IF dq /\ c = ps.options.escape_character /\ at(ps, ps.idx + 1) = 34
               THEN Adv(ps, 1) ELSE ps
      ps2 == FollowExtend(ps1, index_with_iter(p), {Pos(ps1.idx)})
      \* p = Position(self.ci().0 as u64)
      p1 == Pos(cur(ps1))
      ps3 == Adv(ps2, 1)
      c1 == cur(ps3)
  IN  IF c1 # 0 /\ (~dq \/ c1 # 34) /\
         (dq \/ c1 # ps.options.escape_character \/ at(ps3, ps3.idx + 1) # 69)
        THEN QuoteLoop(ps3, p1, c1, dq)
        ELSE [ps |-> ps3, p |-> p1]

\* the closing-parenthesis test after a `(` arm
CloseParen(ps, c) ==
  IF ~Ok(ps) \/ c = 41 THEN ps
  ELSE IF cur(ps) = 41 THEN Adv(ps, 1) ELSE emit(ps, "MismatchedParens")

\* the (?= arm: the lookahead recorded in the lookahead map; ps1 is at
\* the closing parenthesis, ls the position of the opening one
LookaheadMap(ps1, old, rng) ==
  [ps1 EXCEPT !.lookahead_map =
     [k \in (DOMAIN @) \cup {ps1.idx} |->
        IF k = ps1.idx THEN (IF old \cap rng = {} THEN old \cup rng ELSE old)
        ELSE @[k]]]

LookaheadGroup(g1, ls, ticked) ==
  [g1 EXCEPT !.last_positions = @ \cup {ticked} \cup (IF g1.nullable THEN {ls} ELSE {}),
             !.first_positions = IF g1.nullable THEN @ \cup {ticked} ELSE @]

LookaheadTick(ps2, g1, ls, ticked) ==
  R(FollowExtendAll(ps2, {index_with_iter(p) : p \in g1.last_positions}, {ticked}),
    LookaheadGroup(g1, ls, ticked))

\* r is what parse_alternations returned
LookaheadEnd(r, ls) ==
  IF ~Ok(r.ps) THEN r
  ELSE LookaheadTick(LookaheadMap(r.ps, lookahead_at(r.ps, r.ps.idx),
                                  idx(ls)..(r.ps.idx - 1)),
                     [r.g EXCEPT !.first_positions = @ \cup {ls},
                                 !.last_positions = IF r.g.nullable THEN @ \cup {ls}
                                                    ELSE @],
                     ls, set_ticked(Pos(r.ps.idx), TRUE))

Lookahead(ps0, g0) ==
  LookaheadEnd(parse_alternations(Adv(ps0, 1), g0), Pos(ps0.idx - 2))

\* the `(` arm of parse_grouped; g is the group after the reset.
\* r is what the parse of the inside of the group returned
GroupClose(r, c) == R(CloseParen(r.ps, c), r.g)

\* (?^ : the last positions are followed by the accept position 0
GroupNegative(r, c) ==
  IF ~Ok(r.ps) THEN r
  ELSE R(CloseParen(FollowExtendAll(r.ps,
                                    {index_with_iter(p) : p \in r.g.last_positions},
                                    {set_accept(Pos(0), TRUE)}), c),
         r.g)

\* (?imsqx-imsqx: ap is what the second loop over the modifiers returned
GroupRestore(ps0, r, ap) ==
  R(CloseParen([ap.ps EXCEPT !.options.quote_with_x = ps0.options.quote_with_x,
                             !.options.x_freespacing = ps0.options.x_freespacing],
               ap.c),
    r.g)

GroupModified(ps0, ps2, r) ==
  IF ~Ok(r.ps) THEN r ELSE GroupRestore(ps0, r, ModifierApply(r.ps, ps2.idx, TRUE))

\* ps3 is the parser after the first loop over the modifiers
GroupModifiers(ps0, ps2, ps3, g) ==
  IF ~Ok(ps3) THEN R(ps3, g)
  ELSE GroupModified(ps0, ps2,
                     parse_alternations(IF cur(ps3) # 0 THEN Adv(ps3, 1) ELSE ps3, g))

GroupComment(ps2, g, c, close) ==
  IF close = -1 THEN R(emit(ps2, "MismatchedParens"), g)
  ELSE R(CloseParen([ps2 EXCEPT !.idx = close + 1], c), g)

\* ps2 is at the byte c after `(?`
GroupSpecial(ps0, ps2, g, c) ==
  IF c = 35 THEN GroupComment(ps2, g, c, find_at(ps2, ps2.idx, 41))
  ELSE IF c = 94 THEN GroupNegative(parse_alternations(Adv(ps2, 1), g), c)
  ELSE IF c = 61 THEN GroupClose(Lookahead(ps2, g), c)
  ELSE IF c = 58 THEN GroupClose(parse_alternations(Adv(ps2, 1), g), c)
  ELSE GroupModifiers(ps0, ps2, ModifierScan(ps2, TRUE), g)

GroupInside(ps0, ps1, g) ==
  IF cur(ps1) # 63 THEN GroupClose(parse_alternations(ps1, g), 40)
  ELSE GroupSpecial(ps0, Adv(ps1, 1), g, cur(Adv(ps1, 1)))

GroupParen(ps0, g) == GroupInside(ps0, Adv(ps0, 1), g)

\* the `[` arm
GroupBracket(ps0, g) ==
  LET g1 == [g EXCEPT !.first_positions = @ \cup {Pos(ps0.idx)},
                      !.last_positions = @ \cup {Pos(ps0.idx)},
                      !.nullable = FALSE]
      ps1 == Adv(ps0, 1)
      ps2 == IF cur(ps1) = 94 THEN Adv(ps1, 1) ELSE ps1
      ps3 == BracketLoop(ps2, cur(ps2))
  IN  IF cur(ps3) = 0 THEN R(emit(ps3, "MismatchedBrackets"), g1)
      ELSE R(Adv(ps3, 1), g1)

\* the quotation arm: "..." under q, or \Q...\E
GroupQuote(ps0, g) ==
  LET dq == cur(ps0) = 34
      ps1 == Adv(IF dq THEN ps0 ELSE Adv(ps0, 1), 1)
      quote_start_loc == cur(ps1)
      c == cur(ps1)
      quoting == c # 0 /\ ((IF dq THEN c # 34 ELSE c # ps0.options.escape_character)
                            \/ at(ps1, ps1.idx + 1) # 69)
      q == QuoteLoop(ps1, Pos(0), c, dq)
      ps2 == IF quoting
               THEN [q.ps EXCEPT !.modifiers =
                       modifiers_set(@, 113, quote_start_loc, q.ps.idx - 1)]
               ELSE ps1
      g1 == IF quoting
              THEN [g EXCEPT !.first_positions = @ \cup {Pos(ps1.idx)},
                             !.last_positions = @ \cup {q.p},
                             !.nullable = FALSE]
              ELSE g
      ps3 == IF ~dq /\ cur(ps2) # 0 THEN Adv(ps2, 1) ELSE ps2
  IN  IF cur(ps3) # 0 THEN R(Adv(ps3, 1), g1)
      ELSE R(emit(ps3, "MismatchedQuotation"), g1)

parse_grouped(ps, g0) ==
  LET g == [g0 EXCEPT !.first_positions = {}, !.last_positions = {},
                      !.lazy_set = {}, !.nullable = TRUE, !.iteration = 1]
      c == cur(ps)
      nl == find_at(ps, ps.idx, 10)
  IN
  IF ~Ok(ps) THEN R(ps, g)
  ELSE IF c = 40 THEN GroupParen(ps, g)
  ELSE IF c = 91 THEN GroupBracket(ps, g)
  ELSE IF (c = 34 /\ ps.options.quote_with_x) \/ escape_at(ps, ps.idx) = 81
    THEN GroupQuote(ps, g)
  ELSE IF c = 35 /\ ps.options.x_freespacing
    THEN R([ps EXCEPT !.idx = IF nl # -1 THEN nl + 1 ELSE Len(ps.regex)], g)
  ELSE IF is_whitespace(c) /\ ps.options.x_freespacing THEN R(Adv(ps, 1), g)
  ELSE IF c = 41 THEN R(emit(ps, "MismatchedParens"), g)
  ELSE IF c = 125 THEN R(emit(ps, "MismatchedBraces"), g)
  ELSE IF c \notin {0, 124, 63, 42, 43}
    THEN R(IF c = ps.options.escape_character
             THEN parse_esc(ps, FALSE, {}).ps ELSE Adv(ps, 1),
           [g EXCEPT !.first_positions = {Pos(ps.idx)},
                     !.last_positions = {Pos(ps.idx)},
                     !.nullable = FALSE])
  ELSE IF ps.is_first_group /\ c # 0 THEN R(emit(ps, "EmptyExpression"), g)
  ELSE R(ps, g)

(***************************************************************************)
(* parser.rs: parse, parse_global_modifiers                                *)
(***************************************************************************)
META_OPS == {46, 94, 36, 40, 91, 123, 63, 42, 43}
END_ESCAPE_OPTION ==
  (48..57) \cup {60, 62, 65, 66, 68, 72, 76, 78, 80, 83, 85, 87, 88, 98, 99, 100,
                 101, 104, 105, 106, 107, 108, 112, 115, 117, 119, 120, 122, 0}

\* Options::default
DefaultOptions ==
  [bracket_escapes |-> FALSE, escape_character |-> 92, insensitive_case |-> FALSE,
   multiline |-> FALSE, quote_with_x |-> FALSE, single_line |-> FALSE,
   x_freespacing |-> FALSE]

NoModifiers == [q |-> {}, i |-> {}, s |-> {}, m |-> {}, x |-> {}, none |-> {}]

\* Parser::default with the regex and the options set by Parser::new
NewParser(regex, options, overflow_checks) ==
  [regex |-> regex, idx |-> 0, err |-> "", follow |-> <<>>, start_positions |-> {},
   modifiers |-> NoModifiers, lookahead_map |-> <<>>, options |-> options,
   is_first_group |-> FALSE, next_group_idx |-> 0, subpattern_endpoints |-> <<>>,
   strings |-> <<>>, group |-> NewGroup(0, 0, FALSE),
   overflow_checks |-> overflow_checks,
   \* history: <<index of the `?`, tag>> of every lazy quantifier parsed
   lazy_tags |-> <<>>]

\* the option loop of parse_global_modifiers, from index 2 to the `)`
RECURSIVE GlobalModLoop(_, _)
GlobalModLoop(ps, active) ==
  LET c == cur(ps)
      ps1 == CASE c = 45 -> ps
               [] c = 105 -> [ps EXCEPT !.options.insensitive_case = active]
               [] c = 109 -> [ps EXCEPT !.options.multiline = active]
               [] c = 113 -> [ps EXCEPT !.options.quote_with_x = active]
               [] c = 115 -> [ps EXCEPT !.options.single_line = active]
               [] c = 120 -> [ps EXCEPT !.options.x_freespacing = active]
               [] OTHER -> emit(ps, "InvalidModifier")
  IN  IF c = 41 THEN Adv(ps, 1)
      ELSE IF ~Ok(ps1) THEN ps1
      ELSE GlobalModLoop(Adv(ps1, 1), active /\ c # 45)

RECURSIVE SkipModChars(_, _)
SkipModChars(ps, i) ==
  IF is_alphanumeric(at(ps, i)) \/ at(ps, i) = 45 THEN SkipModChars(ps, i + 1) ELSE i

parse_global_modifiers(ps) ==
  IF cur(ps) = 40 /\ at(ps, 1) = 63
    THEN IF at(ps, SkipModChars(ps, 2)) = 41
           THEN GlobalModLoop([ps EXCEPT !.idx = 2], TRUE)
           ELSE [ps EXCEPT !.idx = 0]
    ELSE ps

\* Parser::next_group_index (the u32 counter cannot overflow on a model regex)
next_group_index(ps) == [ps EXCEPT !.next_group_idx = @ + 1]

\* the scan for a string-literal alternative: the value of `end`
RECURSIVE ScanQuote(_, _)
ScanQuote(ps, end) ==
  IF at(ps, end + 1) = 0 \/
     (at(ps, end + 1) = ps.options.escape_character /\ at(ps, end + 2) = 69)
    THEN end + 1 ELSE ScanQuote(ps, end + 1)
RECURSIVE ScanEnd(_, _)
ScanEnd(ps, end) ==
  LET c == at(ps, end)
      c1 == at(ps, end + 1)
  IN  IF c \in {0, 124} THEN end
      ELSE IF c \in META_OPS THEN ps.idx
      ELSE IF c = ps.options.escape_character
        THEN IF c1 \in END_ESCAPE_OPTION THEN ps.idx
             ELSE IF c1 = 81 THEN ScanEnd(ps, ScanQuote(ps, end + 1) + 1)
             ELSE ScanEnd(ps, end + 2)
      ELSE ScanEnd(ps, end + 1)

\* the bytes of the string literal between idx and end; st = [idx, str]
RECURSIVE StringBuild(_, _, _, _, _)
StringBuild(ps, i, end, quote, str) ==
  IF i >= end THEN [idx |-> i, str |-> str]
  ELSE
    LET c == at(ps, i)
        e == try_from_escape(at(ps, i + 1))
    IN  IF c = ps.options.escape_character
          THEN IF at(ps, i + 1) = 81 THEN StringBuild(ps, i + 2, end, TRUE, str)
               ELSE IF at(ps, i + 1) = 69 THEN StringBuild(ps, i + 2, end, FALSE, str)
               ELSE IF ~quote
                 THEN StringBuild(ps, i + 2, end, quote,
                                  Append(str, IF e # -1 THEN e ELSE at(ps, i + 1)))
                 ELSE StringBuild(ps, i + 1, end, quote, Append(str, c))
        ELSE IF c >= 65 /\ c <= 90 /\ ps.options.insensitive_case
          THEN StringBuild(ps, i + 1, end, quote, Append(str, to_lowercase(c)))
        ELSE StringBuild(ps, i + 1, end, quote, Append(str, c))

\* Group::append_idx_as_lazy_accepted: what it inserts into the target set
AcceptSet(g) ==
  IF ~g.nullable THEN {}
  ELSE IF g.lazy_set = {} THEN {set_accept(Pos(g.idx), TRUE)}
  ELSE {set_lazy(set_accept(Pos(g.idx), TRUE), l) : l \in g.lazy_set}

\* Group::append_idx_for_last_positions.  `&mut follow_map[key]` is read as
\* the entry of the key, made empty when absent, like every other write to
\* the map (Parser::follow_positions); the key is the bare index of p.
append_idx_for_last_positions(ps, g) ==
  FollowExtendAll(ps, {Pos(idx(p)) : p \in g.last_positions}, AcceptSet(g))

\* one round of the loop of parse(): one top-level alternative
RECURSIVE TopLoop(_)

\* the end of the round: on to the next alternative after a `|`
TopNext(ps2) ==
  IF ~Ok(ps2) THEN ps2
  ELSE IF cur(ps2) = 124 THEN TopLoop(Adv(ps2, 1))
  ELSE Adv(ps2, 1)

\* a string literal goes to the trie under a second fresh index
TopTrie(psS1, sb) == [psS1 EXCEPT !.strings = (sb.str :> psS1.next_group_idx) @@ @]

TopString(ps1, g1, sb) ==
  TopNext(TopTrie(next_group_index([ps1 EXCEPT !.idx = sb.idx, !.group = g1]), sb))

\* anything else is parsed into followpos: r is what parse_anchors returned
TopAccept(psR1, g2) == [append_idx_for_last_positions(psR1, g2) EXCEPT !.group = g2]

TopRegex(r) ==
  TopNext(IF ~Ok(r.ps) THEN [r.ps EXCEPT !.group = r.g]
          ELSE TopAccept([r.ps EXCEPT !.subpattern_endpoints = Append(@, r.ps.idx),
                                      !.start_positions =
                                         @ \cup r.g.first_positions \cup AcceptSet(r.g)],
                         [r.g EXCEPT !.first_positions = {}]))

TopAlt(ps1, g1, end) ==
  IF ps1.idx < end THEN TopString(ps1, g1, StringBuild(ps1, ps1.idx, end, FALSE, <<>>))
  ELSE TopRegex(parse_anchors(ps1, [g1 EXCEPT !.lazy_set = {}]))

TopGroup(ps0, ps1) ==
  TopAlt(ps1, [ps0.group EXCEPT !.idx = ps1.next_group_idx, !.is_first_group = TRUE],
         IF ~ps1.options.quote_with_x /\ ~ps1.options.x_freespacing
           THEN ScanEnd(ps1, ps1.idx) ELSE ps1.idx)

TopLoop(ps0) == TopGroup(ps0, next_group_index(ps0))

\* the range 0..len-1 of the global option modes; len - 1 is a u32
GlobalRange(ps) ==
  IF Len(ps.regex) = 0 THEN 0..(Len(ps.regex) + 1) ELSE 0..(Len(ps.regex) - 2)
GlobalModes(ps) ==
  LET on == ps.options.insensitive_case \/ ps.options.multiline \/ ps.options.single_line
  IN  IF on /\ Len(ps.regex) = 0 /\ ps.overflow_checks THEN emit(ps, "PanicOverflow")
      ELSE [ps EXCEPT
              !.modifiers.i = IF ps.options.insensitive_case
                                THEN @ \cup GlobalRange(ps) ELSE @,
              !.modifiers.m = IF ps.options.multiline THEN @ \cup GlobalRange(ps) ELSE @,
              !.modifiers.s = IF ps.options.single_line THEN @ \cup GlobalRange(ps) ELSE @]

ParseModes(ps2) == IF ~Ok(ps2) THEN ps2 ELSE GlobalModes(ps2)

ParseTop(ps1) ==
  IF ~Ok(ps1) THEN ps1 ELSE ParseModes(TopLoop([ps1 EXCEPT !.is_first_group = TRUE]))

parse(ps0) == ParseTop(parse_global_modifiers(ps0))

(***************************************************************************)
(* parser.rs: compile_list and the Chars of one position                   *)
(***************************************************************************)
\* chars.rs constants of `.`
ALL_CHARS == AllBytes
NON_NEWLINE_CHARS == AllBytes \ {10}

\* Chars::make_case_insensitive
make_case_insensitive(S) ==
  S \cup {toggle_case(c) : c \in {x \in S : is_ascii_lower(x) \/ is_ascii_upper(x)}}

\* the loop of compile_list; st = [ps, i, prev, lo, c, chars], i the local idx
RECURSIVE ListLoop(_)

\* the element c1 is added to the chars, as the end of a range where lo
\* is set; ps1 is the parser after the element, i1 the index of its end
ListRange(st, ps1, i1, c1, chars0, ci, isRange) ==
  ListLoop([ps |-> IF isRange /\ st.lo > c1 THEN emit(ps1, "InvalidClassRange") ELSE ps1,
            i |-> i1 + 1, c |-> at(st.ps, i1 + 1),
            prev |-> IF isRange THEN EndOfLine ELSE c1, lo |-> EndOfLine,
            chars |-> IF is_meta(c1) THEN chars0
                      ELSE IF isRange
                        THEN (IF ci THEN make_case_insensitive(chars0 \cup (st.lo..c1))
                              ELSE chars0 \cup (st.lo..c1))
                      ELSE IF is_alphabetic(c1) /\ ci
                        THEN chars0 \cup {to_uppercase(c1), to_lowercase(c1)}
                      ELSE chars0 \cup {c1}])

\* e = [ps, c, chars] is the element as parse_esc returns it
ListAdd(st, e, i1) ==
  ListRange(st, [e.ps EXCEPT !.idx = st.ps.idx], i1, e.c, e.chars,
            is_set(st.ps.modifiers, i1, "i"), ~is_meta(e.c) /\ ~is_meta(st.lo))

ListItem(st, e, isClass, c_loc) ==
  ListAdd(st, e, IF isClass /\ c_loc # -1 THEN c_loc + 1 ELSE e.ps.idx)

\* cl is what parse_char_class returned
ListClass(st, cl) == Esc(cl.ps, EndOfLine, st.chars \cup cl.chars)

\* parse_esc / parse_char_class run with self.idx and idx swapped
ListElem(st, isClass, c_loc, closed, isEsc) ==
  ListItem(st,
           IF closed /\ c_loc # st.i + 3
             THEN ListClass(st, parse_char_class([st.ps EXCEPT !.idx = st.i + 2]))
           ELSE IF closed \/ isEsc
             THEN parse_esc([st.ps EXCEPT !.idx = IF closed THEN st.i + 1 ELSE st.i],
                            TRUE, st.chars)
           ELSE Esc([st.ps EXCEPT !.idx = st.i], st.c, st.chars),
           isClass, c_loc)

ListClosed(st, isClass, c_loc) ==
  ListElem(st, isClass, c_loc,
           isClass /\ c_loc # -1 /\ at(st.ps, c_loc + 1) = 93,
           ~isClass /\ st.c = st.ps.options.escape_character
             /\ ~st.ps.options.bracket_escapes)

ListLoop(st) ==
  IF ~Ok(st.ps) \/ ~(st.c # 0 /\ (st.c # 93 \/ st.prev = BeginningOfLine)) THEN st
  ELSE IF st.c = 45 /\ ~is_meta(st.prev) /\ is_meta(st.lo)
    THEN ListLoop([st EXCEPT !.lo = st.prev, !.i = st.i + 1, !.c = at(st.ps, st.i + 1)])
  ELSE ListClosed(st, st.c = 91 /\ at(st.ps, st.i + 1) = 58, find_at(st.ps, st.i + 2, 58))

\* the end of compile_list: a trailing `-`, and the complement
ListEnd(st, complement) ==
  [ps |-> st.ps,
   chars |-> IF complement
               THEN flip(IF ~is_meta(st.lo) THEN st.chars \cup {45} ELSE st.chars)
               ELSE IF ~is_meta(st.lo) THEN st.chars \cup {45} ELSE st.chars]

ListStart(ps, chars, complement, i0) ==
  ListEnd(ListLoop([ps |-> ps, i |-> i0, c |-> at(ps, i0), prev |-> BeginningOfLine,
                    lo |-> EndOfLine, chars |-> chars]),
          complement)

\* Parser::compile_list: returns [ps, chars]
compile_list(ps, chars) ==
  ListStart(ps, chars, at(ps, ps.idx + 1) = 94,
            ps.idx + 1 + (IF at(ps, ps.idx + 1) = 94 THEN 1 ELSE 0))

\* the Chars that compile_transition derives for the position k, with the
\* parser after it (compile_list and parse_esc move the cursor).
\* pe is what parse_esc returned, ci the mode i at the position
CharsEsc(pe, ci) ==
  [ps |-> pe.ps,
   chars |-> IF ~is_meta(pe.c) /\ pe.c <= 122 /\ is_alphabetic(pe.c) /\ ci
               THEN pe.chars \cup {to_uppercase(pe.c), to_lowercase(pe.c)}
               ELSE pe.chars]

\* the arms of the escapes; esc is the escaped byte, 0 without an escape
CharsEscape(ps, k, c, esc, ci) ==
  \* the arm `'0'` of the source: the escape is the digit zero
  IF esc = 48
    THEN [ps |-> ps, chars |-> IF is_alphabetic(c) /\ ci THEN {c, toggle_case(c)} ELSE {c}]
  ELSE IF esc = 105 THEN [ps |-> ps, chars |-> {IndentBoundary}]
  ELSE IF esc = 106 THEN [ps |-> ps, chars |-> {DedentBoundary}]
  ELSE IF esc = 107 THEN [ps |-> ps, chars |-> {UndentBoundary}]
  ELSE IF esc = 65 THEN [ps |-> ps, chars |-> {BeginningOfBuffer}]
  ELSE IF esc = 122 THEN [ps |-> ps, chars |-> {EndOfBuffer}]
  ELSE IF esc = 66
    THEN [ps |-> ps, chars |-> IF is_anchor(k) THEN {NonWordBoundary} ELSE {NonWordEnd}]
  ELSE IF esc = 98
    THEN [ps |-> ps, chars |-> IF is_anchor(k) THEN BeginWordBegin..EndWordBegin
                               ELSE BeginWordEnd..EndWordEnd]
  ELSE IF esc = 60
    THEN [ps |-> ps, chars |-> IF is_anchor(k) THEN {BeginWordBegin} ELSE {BeginWordEnd}]
  ELSE IF esc = 62
    THEN [ps |-> ps, chars |-> IF is_anchor(k) THEN {EndWordBegin} ELSE {EndWordEnd}]
  \* everything else, an unescaped byte included, is read by parse_esc at
  \* the parser's cursor
  ELSE CharsEsc(parse_esc(ps, TRUE, {}), ci)

CharsAt(ps, k, c, q, ci, sm, mm) ==
  IF q
    THEN [ps |-> ps,
          chars |-> IF is_alphabetic(c) /\ ci THEN {to_uppercase(c), to_lowercase(c)}
                    ELSE {c}]
  ELSE IF c = 46 THEN [ps |-> ps, chars |-> IF sm THEN ALL_CHARS ELSE NON_NEWLINE_CHARS]
  ELSE IF c = 94
    THEN [ps |-> ps, chars |-> IF mm THEN {BeginningOfLine} ELSE {BeginningOfBuffer}]
  ELSE IF c = 36 THEN [ps |-> ps, chars |-> IF mm THEN {EndOfLine} ELSE {EndOfBuffer}]
  ELSE IF c = 91 THEN compile_list([ps EXCEPT !.idx = idx(k)], {})
  ELSE CharsEscape(ps, k, c, escape_at(ps, idx(k)), ci)

CharsOf(ps, k) ==
  CharsAt(ps, k, at(ps, idx(k)),
          is_set(ps.modifiers, idx(k), "q"), is_set(ps.modifiers, idx(k), "i"),
          is_set(ps.modifiers, idx(k), "s"), is_set(ps.modifiers, idx(k), "m"))

(***************************************************************************)
(* The program state.                                                      *)
(***************************************************************************)
VARIABLES
  parser,        \* the Parser: regex, cursor, followpos, options, ... (ps above)
  pc,            \* where build() stands
  states,        \* the State objects by identity; 1 is Parser::start
  start_cell,    \* the PositionSet in the cell of the start state
  table,         \* compile(): HashMap<VcPositionSet, VcState>, keyed by pointer
  current_state, \* StateNextIterator::current_state (0 is None)
  state,         \* the state the loop of compile() is working on
  last_state,    \* compile(): last_state
  todo,          \* compile_transition: the positions of `state` still to visit
  moves,         \* Parser::moves, a sequence of [chars, positions (pointer)]
  subpattern_is_accepting,
  runs,          \* how many times compile() has been entered
  dfa,           \* the Compiler: predictor results and encoder progress
  visited,       \* history: the states the loop of compile() was handed, in order
  previous,      \* history: the State objects as they were when compile() was entered
  made           \* history: the opcode constructor calls made outside encode_dfa

vars == <<parser, pc, states, start_cell, table, current_state, state, last_state,
          todo, moves, subpattern_is_accepting, runs, dfa, visited, previous, made>>

\* the pointer of the cell of the start state
StartPtr == [hi |-> -1, lo |-> 0]
\* State::null_state(), the singleton, as a state identity
NullState == 0

\* State::default with the given positions cell (State::with_pos)
with_pos(ptr) ==
  [positions |-> ptr, next |-> 0, edges |-> <<>>, accept |-> 0, redo |-> FALSE,
   heads |-> {}, tails |-> {}, first |-> 0, index |-> 0]

\* the PositionSet in the cell at a pointer
Cell(ps, sc, ptr) == IF ptr = StartPtr THEN sc ELSE ps.follow[ptr]

(***************************************************************************)
(* parser.rs: transition.  A RefCell that is borrowed mutably panics on    *)
(* any further borrow; `held` is the cell compile_transition keeps         *)
(* borrowed (the positions of the state at work).                          *)
(* tr = [ps, moves, chars]: the parser (for the cells), the moves and the  *)
(* caller's chars.                                                         *)
(***************************************************************************)
\* first loop: absorb the moves whose positions are a subset of follow
Absorb(ps, mv, chars, F, held) ==
  LET sub == {i \in 1..Len(mv) : ps.follow[mv[i].positions] \subseteq ps.follow[F]}
      keep == SelectSeq([i \in 1..Len(mv) |-> [m |-> mv[i], i |-> i]],
                        LAMBDA x : x.i \notin sub)
  IN  IF mv # <<>> /\ (F = held \/ \E i \in 1..Len(mv) : mv[i].positions = held)
        THEN [ps |-> emit(ps, "PanicBorrow"), moves |-> mv, chars |-> chars]
        ELSE [ps |-> ps, moves |-> [j \in 1..Len(keep) |-> keep[j].m],
              chars |-> chars \cup UNION {mv[i].chars : i \in sub}]

\* second loop, from move i on; done = the early return on empty chars
RECURSIVE Combine(_, _, _, _)
Combine(tr, i, F, held) ==
  IF ~Ok(tr.ps) \/ i > Len(tr.moves) THEN [tr EXCEPT !.done = FALSE]
  ELSE
    LET mi == tr.moves[i]
        ps == tr.ps
    IN  IF tr.chars \cap mi.chars = {} THEN Combine(tr, i + 1, F, held)
        ELSE IF F = held \/ mi.positions = F \/ mi.positions = held
          THEN [tr EXCEPT !.ps = emit(ps, "PanicBorrow"), !.done = TRUE]
        ELSE
          LET sub == ps.follow[mi.positions] \subseteq ps.follow[F]
              \* chars.is_subset(i_chars) is (i_chars - chars).is_empty()
              inside == mi.chars \subseteq tr.chars
              ps1 == IF ~sub /\ inside
                       THEN [ps EXCEPT !.follow[mi.positions] = @ \cup ps.follow[F]]
                       ELSE ps
              ch1 == tr.chars \ mi.chars
          IN  IF ~sub /\ ~inside
                \* i_positions is borrowed again while `positions` holds it
                THEN [tr EXCEPT !.ps = emit(ps, "PanicBorrow"), !.done = TRUE]
              ELSE IF ch1 = {}
                THEN [ps |-> ps1, moves |-> tr.moves, chars |-> ch1, done |-> TRUE]
              ELSE Combine([ps |-> ps1, moves |-> tr.moves, chars |-> ch1,
                            done |-> FALSE], i + 1, F, held)

\* Parser::transition(chars, follow); returns [ps, moves]
transition(ps, mv, chars, F, held) ==
  LET a == Absorb(ps, mv, chars, F, held)
      b == Combine([ps |-> a.ps, moves |-> a.moves, chars |-> a.chars, done |-> FALSE],
                   1, F, held)
  IN  IF ~Ok(a.ps) THEN [ps |-> a.ps, moves |-> mv]
      ELSE IF b.done \/ b.chars = {} THEN [ps |-> b.ps, moves |-> b.moves]
      ELSE [ps |-> b.ps, moves |-> Append(b.moves, [chars |-> b.chars, positions |-> F])]

(***************************************************************************)
(* parser.rs: compile_transition, one position k of the state at a time    *)
(***************************************************************************)
\* the accept arm: st is the State record
AcceptStep(st, k) ==
  [st EXCEPT !.accept = IF st.accept = 0 \/ accepts(k) < st.accept THEN accepts(k) ELSE @,
             !.redo = @ \/ accepts(k) = 0]

\* Ranges::len: the number of ranges a set of indices is stored as
RangeCount(S) == Cardinality({i \in S : i - 1 \notin S})

\* the lookahead arm: ord is the order in which the hash map yields its
\* keys; returns the lookahead ids of k
RECURSIVE LookaheadIds(_, _, _, _, _)
LookaheadIds(ps, k, ord, hops, n) ==
  IF hops > Len(ord) THEN {}
  ELSE LET loc == ps.lookahead_map[ord[hops]]
       IN  (IF idx(k) \in loc THEN {n + hops - 1} ELSE {})
           \cup LookaheadIds(ps, k, ord, hops + 1, n + RangeCount(loc))

\* the iteration orders of a hash map with the key set D
Orders(D) ==
  {o \in [1..Cardinality(D) -> D] : \A i, j \in 1..Cardinality(D) : i # j => o[i] # o[j]}

\* the follow arm: the cell `follow` of the position k, with the lazy
\* followpos memoized; returns [ps, F, skip]
FollowOf(ps, k, held) ==
  LET key == index_with_iter(k)
      more == {IF is_ticked(p) THEN p ELSE set_lazy(p, lazy(k)) : p \in ps.follow[key]}
  IN  IF key \notin DOMAIN ps.follow THEN [ps |-> ps, F |-> key, skip |-> TRUE]
      ELSE IF is_lazy(k)
        THEN IF is_greedy(k) THEN [ps |-> ps, F |-> key, skip |-> TRUE]
             ELSE IF k \in DOMAIN ps.follow THEN [ps |-> ps, F |-> k, skip |-> FALSE]
             ELSE IF key = held
               THEN [ps |-> emit(ps, "PanicBorrow"), F |-> k, skip |-> TRUE]
             ELSE [ps |-> FollowExtend(ps, k, more), F |-> k, skip |-> FALSE]
      \* follow_positions_map[&Position(k.idx())]: Index panics on a missing key
      ELSE IF Pos(idx(k)) \notin DOMAIN ps.follow
        THEN [ps |-> emit(ps, "PanicIndex"), F |-> key, skip |-> TRUE]
      ELSE [ps |-> ps, F |-> Pos(idx(k)), skip |-> FALSE]

\* everything compile_transition does for the position k of the state st;
\* returns [ps, moves, st].  t is what transition returned
StepTransition(st, t) == [ps |-> t.ps, moves |-> t.moves, st |-> st]

\* ch = [ps, chars] is the Chars of the position, f.F its follow cell
StepMove(mv, st, f, ch) ==
  IF ~Ok(ch.ps) THEN [ps |-> ch.ps, moves |-> mv, st |-> st]
  ELSE StepTransition(st, transition(ch.ps, mv, ch.chars, f.F, st.positions))

StepFollow(mv, st, k, f) ==
  IF f.skip THEN [ps |-> f.ps, moves |-> mv, st |-> st]
  ELSE StepMove(mv, st, f, CharsOf(f.ps, k))

\* the lookahead arm: ids are the lookahead ids of k.  The body of the
\* loop over the lookahead map prints state.borrow().accept while the
\* state is borrowed mutably (state_ref): with an entry in the map the
\* first turn of the loop panics
StepLookahead(ps, mv, st, c, ids) ==
  IF DOMAIN ps.lookahead_map # {}
    THEN [ps |-> emit(ps, "PanicBorrow"), moves |-> mv, st |-> st]
  ELSE [ps |-> ps, moves |-> mv,
        st |-> IF c = 40 THEN [st EXCEPT !.heads = @ \cup ids]
               ELSE [st EXCEPT !.tails = @ \cup ids]]

StepPosition(ps, mv, st, k, ord) ==
  IF is_accept(k) THEN [ps |-> ps, moves |-> mv, st |-> AcceptStep(st, k)]
  ELSE IF at(ps, idx(k)) \in {40, 41} /\ ~is_set(ps.modifiers, idx(k), "q")
    THEN StepLookahead(ps, mv, st, at(ps, idx(k)), LookaheadIds(ps, k, ord, 1, 0))
  ELSE StepFollow(mv, st, k, FollowOf(ps, k, st.positions))

\* parser::trim_lazy: its body is commented out in the source
trim_lazy(S) == S

\* Chars to edges: the maximal runs lo..hi of a Chars, as the set of <<lo, hi>>
RunEnd(S, lo) ==
  LET ends == {h \in S : h >= lo /\ h + 1 \notin S}
  IN  CHOOSE h \in ends : \A g \in ends : h <= g
\* the runs with `lo` never moved on: every run starts at the lowest char
RunsFromLowest(S) ==
  {<<CHOOSE m \in S : \A y \in S : m <= y, RunEnd(S, lo)>> :
     lo \in {x \in S : x - 1 \notin S}}
Runs(S) == {<<lo, RunEnd(S, lo)>> : lo \in {x \in S : x - 1 \notin S}}

(***************************************************************************)
(* build(): parse, then compile                                            *)
(***************************************************************************)
\* Compiler::new: nothing predicted, nothing encoded
NoDfa ==
  [prefix |-> <<>>, one_pre_string |-> FALSE, min_pattern_length |-> 0, level |-> 0,
   level_states |-> {}, opcode_count |-> 0, current_state |-> 0, opcode_table |-> <<>>,
   offsets |-> <<>>]

\* Parser::parse
Parse ==
  /\ pc = "new"
  /\ parser' = parse(parser)
  /\ pc' = IF Ok(parser') THEN "parsed" ELSE "failed"
  /\ UNCHANGED <<states, start_cell, table, current_state, state, last_state, todo,
                 moves, subpattern_is_accepting, runs, visited, previous, made, dfa>>

\* compile() up to its loop: the swap of start_positions into the start
\* cell, the fresh table with the start cell, last_state, the iterator
EnterCompile ==
  /\ subpattern_is_accepting' =
       [i \in 1..Len(parser.subpattern_endpoints) |->
          IF i <= Len(subpattern_is_accepting) THEN subpattern_is_accepting[i] ELSE FALSE]
  \* self.start.trim_lazy(), then the swap
  /\ start_cell' = parser.start_positions
  /\ parser' = [parser EXCEPT !.start_positions = trim_lazy(start_cell)]
  /\ table' = (states[1].positions :> 1)
  /\ last_state' = 1
  /\ current_state' = 1
  /\ runs' = runs + 1
  /\ visited' = <<>>
  /\ previous' = states
  /\ pc' = "iterate"
  /\ UNCHANGED <<states, state, todo, moves, dfa, made>>

\* build(): self.start = new state; self.compile()
CompileInit ==
  /\ pc = "parsed"
  /\ EnterCompile

\* StateNextIterator::next with a state left, and the entry of
\* compile_transition: the iterator moves on to the successor the state
\* has NOW, before the body of the loop runs
IterNext ==
  /\ pc = "iterate"
  /\ current_state # 0
  /\ state' = current_state
  /\ current_state' = states[current_state].next
  /\ todo' = SortPos(Cell(parser, start_cell, states[current_state].positions))
  /\ visited' = Append(visited, current_state)
  /\ pc' = "transition"
  /\ UNCHANGED <<parser, states, start_cell, table, last_state, moves,
                 subpattern_is_accepting, runs, previous, made, dfa>>

\* r = [ps, moves, st] is the parser, the moves and the state after the
\* position
StepApply(r) ==
  /\ parser' = r.ps
  /\ moves' = r.moves
  /\ states' = [states EXCEPT ![state] = r.st]
  /\ pc' = IF Ok(r.ps) THEN "transition" ELSE "failed"

\* compile_transition: the body of `for k in positions` for the next k
CompileTransitionStep ==
  /\ pc = "transition"
  /\ todo # <<>>
  /\ \E ord \in Orders(DOMAIN parser.lookahead_map) :
       StepApply(StepPosition(parser, moves, states[state], Head(todo), ord))
  /\ todo' = Tail(todo)
  /\ UNCHANGED <<start_cell, table, current_state, state, last_state,
                 subpattern_is_accepting, runs, visited, previous, made, dfa>>

\* the end of compile_transition: trim_lazy on every move, and the moves
\* whose positions are empty removed
TrimMoves ==
  /\ pc = "transition"
  /\ todo = <<>>
  /\ parser' = [parser EXCEPT !.follow =
                  [q \in DOMAIN @ |->
                     IF \E i \in 1..Len(moves) : moves[i].positions = q
                       THEN trim_lazy(@[q]) ELSE @[q]]]
  /\ moves' = SelectSeq(moves, LAMBDA mv : trim_lazy(parser.follow[mv.positions]) # {})
  /\ pc' = "moves"
  /\ UNCHANGED <<states, start_cell, table, current_state, state, last_state, todo,
                 subpattern_is_accepting, runs, visited, previous, made, dfa>>

\* the body of `for ... in self.moves` of compile() for the next move:
\* find or create the target, link it after last_state, insert the edges
MaterializeMove ==
  /\ pc = "moves"
  /\ moves # <<>>
  /\ LET mv == Head(moves)
         known == mv.positions \in DOMAIN table
         target == IF known THEN table[mv.positions] ELSE Len(states) + 1
         all == IF known THEN states ELSE Append(states, with_pos(mv.positions))
         linked == [all EXCEPT ![last_state].next = target]
     IN  IF parser.follow[mv.positions] = {}
           THEN UNCHANGED <<states, table, last_state>>
           ELSE /\ table' = IF known THEN table ELSE table @@ (mv.positions :> target)
                /\ last_state' = target
                /\ states' = [linked EXCEPT ![state].edges =
                                [hi \in (DOMAIN @) \cup {r[2] : r \in Runs(mv.chars)} |->
                                   IF \E r \in Runs(mv.chars) : r[2] = hi
                                     THEN [lo |-> (CHOOSE r \in Runs(mv.chars) : r[2] = hi)[1],
                                           target |-> target]
                                     ELSE @[hi]]]
  /\ moves' = Tail(moves)
  /\ UNCHANGED <<parser, pc, start_cell, current_state, state, todo,
                 subpattern_is_accepting, runs, visited, previous, made, dfa>>

\* the end of the loop body: subpattern_is_accepting, moves.clear()
FinishState ==
  /\ pc = "moves"
  /\ moves = <<>>
  /\ subpattern_is_accepting' =
       LET a == states[state].accept
       IN  IF a > 0 /\ a <= Len(parser.subpattern_endpoints)
             THEN [subpattern_is_accepting EXCEPT ![a] = TRUE]
             ELSE subpattern_is_accepting
  /\ pc' = "iterate"
  /\ UNCHANGED <<parser, states, start_cell, table, current_state, state, last_state,
                 todo, moves, runs, visited, previous, made, dfa>>

\* StateNextIterator::next returns None: compile() is over
IterDone ==
  /\ pc = "iterate"
  /\ current_state = 0
  /\ pc' = "compiled"
  /\ UNCHANGED <<parser, states, start_cell, table, current_state, state, last_state,
                 todo, moves, subpattern_is_accepting, runs, visited, previous, made, dfa>>

(***************************************************************************)
(* compiler.rs: the match predictor (predict_match_dfa, gen_predict_match, *)
(* gen_predict_match_transitions).  The predictor arrays themselves are    *)
(* not part of the model; the prefix, one_pre_string, min_pattern_length,  *)
(* the states of each level and the edges the predictor redirects are.     *)
(***************************************************************************)
GOTO_MAX_IDX == 16711679
ACCEPT_MAX == 16646143
PrefixMax == 255
LEVEL_COUNT == 8

\* a State by identity; the singleton null state has no edges
StateAt(sts, id) == IF id = NullState THEN with_pos(StartPtr) ELSE sts[id]

\* State::is_null compares with State::default(), whose positions cell is
\* a fresh pointer: no state, the singleton included, is equal to it
is_null(st) == FALSE

\* the u16 keys of a BTreeMap or BTreeSet in ascending order: those of S
\* in a..b
RECURSIVE SortIn(_, _, _)
SortIn(S, a, b) ==
  IF S = {} THEN <<>>
  ELSE IF a = b THEN <<a>>
  ELSE SortIn({x \in S : x <= (a + b) \div 2}, a, (a + b) \div 2)
       \o SortIn({x \in S : x > (a + b) \div 2}, (a + b) \div 2 + 1, b)
SortKeys(S) == SortIn(S, 0, IterMod - 1)

\* the while loop of predict_match_dfa; w = [state, prefix, one]
RECURSIVE PrefixLoop(_, _)
PrefixLoop(sts, w) ==
  LET st == StateAt(sts, w.state)
      key == CHOOSE k \in DOMAIN st.edges : TRUE
  IN  IF st.accept # 0 THEN w
      ELSE IF Cardinality(DOMAIN st.edges) # 1 THEN [w EXCEPT !.one = FALSE]
      ELSE IF is_meta(key) \/ key # st.edges[key].lo THEN [w EXCEPT !.one = FALSE]
      ELSE IF Len(w.prefix) >= PrefixMax THEN [w EXCEPT !.one = FALSE]
      ELSE PrefixLoop(sts, [state |-> st.edges[key].target,
                            prefix |-> Append(w.prefix, key), one |-> w.one])

\* predict_match_dfa up to the call of gen_predict_match
PredictPrefix ==
  /\ pc = "compiled"
  /\ LET w == PrefixLoop(states, [state |-> 1, prefix |-> <<>>, one |-> TRUE])
         st == StateAt(states, w.state)
         gen == ~is_null(st) /\ st.accept = 0
     IN  /\ dfa' = [prefix |-> w.prefix,
                    one_pre_string |-> w.one /\ ~(~is_null(st) /\ st.accept # 0
                                                  /\ st.edges # <<>>),
                    min_pattern_length |-> IF gen THEN LEVEL_COUNT ELSE 0,
                    level |-> 0, level_states |-> {1}, opcode_count |-> 0,
                    current_state |-> 1, opcode_table |-> <<>>, offsets |-> <<>>]
         /\ pc' = IF gen THEN "predict" ELSE "encode"
  /\ UNCHANGED <<parser, states, start_cell, table, current_state, state, last_state,
                 todo, moves, subpattern_is_accepting, runs, visited, previous, made>>

\* gen_predict_match_transitions(level, x): the loop over the edges of x
\* from the key sequence ks on; g = [states, mpl, reached, panic]
RECURSIVE PredictEdges(_, _, _, _)
PredictEdges(g, x, level, ks) ==
  IF ks = <<>> \/ g.panic THEN g
  ELSE
    LET key == Head(ks)
        e == g.states[x].edges[key]
        nxt == IF level < 7 THEN e.target ELSE NullState
        next == StateAt(g.states, nxt)
        acc0 == is_null(next) \/ next.accept # 0
        nkeys == SortKeys(DOMAIN next.edges)
        metaNext == \E k \in DOMAIN next.edges : is_meta(k)
        accept == acc0 \/ metaNext
        redirect == IF ~acc0 THEN nkeys # <<>> /\ is_meta(Head(nkeys))
                    ELSE ~is_null(next) /\ next.edges = <<>>
        tgt == IF redirect THEN NullState ELSE e.target
        sts1 == [g.states EXCEPT ![x].edges[key].target = tgt]
        mpl1 == IF accept /\ (level = 0 \/ g.mpl > level) THEN level + 1 ELSE g.mpl
        \* the loops over lo..=hi run from the key to the other end
        some == key <= e.lo /\ (level = 0 \/ level < 4 \/ level <= mpl1)
        reach == IF some /\ ~is_null(StateAt(sts1, tgt)) THEN g.reached \cup {tgt}
                 ELSE g.reached
    IN  IF is_meta(key)
          THEN [g EXCEPT !.mpl = IF level = 0 THEN 0 ELSE @]
        \* the target is borrowed while the state itself is borrowed mutably
        ELSE IF e.target = x THEN [g EXCEPT !.panic = TRUE]
        ELSE PredictEdges([states |-> sts1, mpl |-> mpl1, reached |-> reach,
                           panic |-> FALSE], x, level, Tail(ks))

\* one level of gen_predict_match: every state of the previous level, in
\* the order xs in which the hash map of the level yields them
RECURSIVE PredictStates(_, _, _)
PredictStates(g, xs, level) ==
  IF xs = <<>> THEN g
  ELSE LET x == Head(xs)
           g1 == IF x = NullState THEN g
                 ELSE PredictEdges(g, x, level, SortKeys(DOMAIN g.states[x].edges))
       IN  PredictStates(g1, Tail(xs), level)

PredictLevel ==
  /\ pc = "predict"
  /\ dfa.level < LEVEL_COUNT
  /\ \E ord \in Orders(dfa.level_states) :
     LET g == PredictStates([states |-> states, mpl |-> dfa.min_pattern_length,
                             reached |-> {}, panic |-> FALSE], ord, dfa.level)
     IN  /\ states' = g.states
         /\ dfa' = [dfa EXCEPT !.min_pattern_length = g.mpl, !.level = @ + 1,
                                !.level_states = g.reached]
         /\ parser' = IF g.panic THEN emit(parser, "PanicBorrow") ELSE parser
         /\ pc' = IF g.panic THEN "failed"
                  ELSE IF dfa.level + 1 = LEVEL_COUNT THEN "encode" ELSE "predict"
  /\ UNCHANGED <<start_cell, table, current_state, state, last_state, todo, moves,
                 subpattern_is_accepting, runs, visited, previous, made>>

(***************************************************************************)
(* opcode.rs.  A u32 is the record [hi, lo] of its two 16-bit halves, an   *)
(* Opcode is its u32.  The methods of Opcode carry the prefix op_          *)
(* (is_meta, idx, lo and hi are names of Char and Position); an index      *)
(* that a method decodes is returned as a number.                          *)
(***************************************************************************)
\* the u32 0x b4 b3 b2 b1
Word(b4, b3, b2, b1) == [hi |-> b4 * 256 + b3, lo |-> b2 * 256 + b1]
\* the u32 of a number below 2^31, and back
ToWord(n) == [hi |-> n \div 65536, lo |-> n % 65536]
ToNum(w) == w.hi * 65536 + w.lo
WordLess(a, b) == a.hi < b.hi \/ (a.hi = b.hi /\ a.lo < b.lo)

HALT == Word(0, 255, 255, 255)
HEAD == Word(251, 0, 0, 0)
TAIL == Word(252, 0, 0, 0)
REDO == Word(253, 0, 0, 0)
OPCODE_TAKE == Word(254, 0, 0, 0)       \* TAKE
LONG == Word(255, 0, 0, 0)
LONG_MARKER == Word(0, 0, 255, 254)
HALT_MARKER == Word(0, 0, 255, 255)
BYTE1 == Word(0, 0, 0, 255)
BYTE1_2 == Word(0, 0, 255, 255)
BYTE1_3 == Word(0, 255, 255, 255)
BYTE3 == Word(0, 255, 0, 0)
BYTE4 == Word(255, 0, 0, 0)
OPCODE == BYTE4
INDEX == BYTE1_2
LONG_INDEX == BYTE1_3
BYTE4_SHIFT == 24
BYTE3_SHIFT == 16
\* opcode::OPCODE_REDO, which compiler.rs imports, is Opcode::redo()
OPCODE_REDO == REDO

\* limits.rs
IMAX_IDX == Word(255, 255, 255, 255)
LOOKAHEAD_MAX_IDX == 16449535

\* the operators & and | on 16 bits
RECURSIVE And16(_, _)
And16(a, b) ==
  IF a = 0 \/ b = 0 THEN 0
  ELSE (a % 2) * (b % 2) + 2 * And16(a \div 2, b \div 2)
RECURSIVE Or16(_, _)
Or16(a, b) ==
  IF a = 0 THEN b
  ELSE IF b = 0 THEN a
  ELSE (IF a % 2 = 1 \/ b % 2 = 1 THEN 1 ELSE 0) + 2 * Or16(a \div 2, b \div 2)
\* the operators & and | of u32
BitAnd(a, b) == [hi |-> And16(a.hi, b.hi), lo |-> And16(a.lo, b.lo)]
BitOr(a, b) == [hi |-> Or16(a.hi, b.hi), lo |-> Or16(a.lo, b.lo)]
\* << and >> of u32 by n < 32 bits: the bits shifted out are lost
shl(a, n) ==
  IF n >= 16 THEN [hi |-> (a.lo * 2^(n - 16)) % 65536, lo |-> 0]
  ELSE [hi |-> (a.hi * 2^n + a.lo \div 2^(16 - n)) % 65536, lo |-> (a.lo * 2^n) % 65536]
shr(a, n) ==
  IF n >= 16 THEN [hi |-> 0, lo |-> a.hi \div 2^(n - 16)]
  ELSE [hi |-> a.hi \div 2^n, lo |-> (a.hi % 2^n) * 2^(16 - n) + a.lo \div 2^n]
\* a shift by the u32 n: 32 bits or more panic under overflow checks;
\* without them the amount is taken modulo 32
ShiftPanics(n, checks) == checks /\ ~WordLess(n, ToWord(32))
ShiftAmount(n) == n.lo % 32
\* the result of a method that has panicked
Panicked == -1

opcode_long(index) == BitOr(LONG_MARKER, BitAnd(index, LONG_INDEX))
opcode_take(index) == BitOr(OPCODE_TAKE, BitAnd(index, LONG_INDEX))
opcode_tail(index) == BitOr(TAIL, BitAnd(index, LONG_INDEX))
opcode_head(index) == BitOr(HEAD, BitAnd(index, LONG_INDEX))
\* lo and hi are Chars, index is a u32
opcode_goto(lo, hi, index) ==
  IF is_meta(lo) THEN BitOr(shl(ToWord(lo), BYTE4_SHIFT), index)
  ELSE BitOr(BitOr(shl(ToWord(lo), BYTE4_SHIFT), shl(ToWord(hi), BYTE3_SHIFT)), index)

op_is_long(w) == BitAnd(w, OPCODE) = LONG_MARKER
op_is_take(w) == BitAnd(w, OPCODE) = OPCODE_TAKE
op_is_redo(w) == w = REDO
op_is_tail(w) == BitAnd(w, OPCODE) = TAIL
op_is_head(w) == BitAnd(w, OPCODE) = HEAD
op_is_halt(w) == w = HALT
op_is_goto(w) ==
  ~WordLess(shr(BitAnd(w, BYTE3), BYTE3_SHIFT), shr(BitAnd(w, BYTE4), BYTE4_SHIFT))
\* is_meta shifts by the mask BYTE4, not by BYTE4_SHIFT: the value it
\* returns when the shift does not panic
op_is_meta(w) ==
  BitAnd(w, BYTE3) = ToWord(0) /\ WordLess(ToWord(0), shr(w, ShiftAmount(BYTE4)))
op_meta(w) == MetaMIN + ToNum(shr(w, BYTE4_SHIFT))
op_lo(w, checks) ==
  IF ShiftPanics(BYTE4, checks) THEN Panicked
  ELSE IF op_is_meta(w) THEN op_meta(w) ELSE ToNum(shr(w, BYTE4_SHIFT))
op_hi(w, checks) ==
  IF ShiftPanics(BYTE4, checks) THEN Panicked
  ELSE IF op_is_meta(w) THEN op_meta(w)
  ELSE ToNum(BitAnd(shr(w, BYTE3_SHIFT), BYTE1))
op_idx(w) == ToNum(BitAnd(w, INDEX))
op_long_idx(w) == ToNum(BitAnd(w, LONG_INDEX))

(***************************************************************************)
(* compiler.rs: encode_dfa, first pass, one state of the next chain at a   *)
(* time (edges are stored as hi -> (lo, target) and scanned from the       *)
(* highest key down)                                                       *)
(***************************************************************************)
\* scan_and_count_edges with a closure that never records that the edges
\* cover every byte
RECURSIVE ScanEdgesNeverCovered(_, _, _, _)
ScanEdgesNeverCovered(g, edges, ks, checks) ==
  IF ks = <<>> \/ g.panic THEN g
  ELSE
    LET key == Head(ks)
        e == edges[key]
        lo1 == IF g.lo # key THEN g.lo
               ELSE IF e.lo = 0 THEN IterMod - 1 ELSE e.lo - 1
    IN  IF g.lo = key /\ e.lo = 0 /\ checks THEN [g EXCEPT !.panic = TRUE]
        ELSE ScanEdgesNeverCovered([lo |-> lo1, hi |-> key,
                                    count |-> g.count + 1
                                              + (IF is_meta(lo1) THEN key - e.lo ELSE 0),
                                    covered |-> FALSE, panic |-> FALSE],
                                   edges, Tail(ks), checks)

\* scan_and_count_edges with the closure of the first pass;
\* g = [lo, hi, count, covered, panic], ks the keys still to scan
RECURSIVE ScanEdges(_, _, _, _)
ScanEdges(g, edges, ks, checks) ==
  IF ks = <<>> \/ g.panic THEN g
  ELSE
    LET key == Head(ks)
        e == edges[key]
        \* lo = (item.1).0 - 1 on a u16
        under == g.lo = key /\ e.lo = 0
        lo1 == IF g.lo # key THEN g.lo
               ELSE IF e.lo = 0 THEN IterMod - 1 ELSE e.lo - 1
        meta == is_meta(lo1)
        cover == meta /\ e.lo = 0
    IN  IF under /\ checks THEN [g EXCEPT !.panic = TRUE]
        ELSE ScanEdges([lo |-> IF cover THEN key ELSE lo1, hi |-> key,
                        count |-> g.count + 1 + (IF meta THEN key - e.lo ELSE 0),
                        covered |-> g.covered \/ cover, panic |-> FALSE],
                       edges, Tail(ks), checks)

\* the keys of a BTreeMap from the highest down
RECURSIVE Reverse(_)
Reverse(q) == IF q = <<>> THEN <<>> ELSE Append(Reverse(Tail(q)), Head(q))

valid_goto_index(index) == index <= GOTO_MAX_IDX

\* the body of the first loop of encode_dfa for the next state
EncodeState ==
  /\ pc = "encode"
  /\ dfa.current_state # 0
  /\ LET x == dfa.current_state
         st == states[x]
         g == ScanEdges([lo |-> 255, hi |-> 0, count |-> 0, covered |-> FALSE,
                         panic |-> FALSE],
                        st.edges, Reverse(SortKeys(DOMAIN st.edges)),
                        parser.overflow_checks)
         halt == ~g.covered
         edges1 == IF halt
                     THEN [k \in (DOMAIN st.edges) \cup {g.lo} |->
                             IF k = g.lo THEN [lo |-> 0, target |-> NullState]
                             ELSE st.edges[k]]
                     ELSE st.edges
         accept1 == IF st.accept < ACCEPT_MAX THEN st.accept ELSE ACCEPT_MAX
         count == dfa.opcode_count + g.count + (IF halt THEN 1 ELSE 0)
                  + Cardinality(st.heads) + Cardinality(st.tails)
                  + (IF accept1 > 0 \/ st.redo THEN 1 ELSE 0)
     IN  IF g.panic
           THEN /\ parser' = emit(parser, "PanicOverflow")
                /\ pc' = "failed"
                /\ states' = [states EXCEPT ![x].accept = accept1,
                                            ![x].index = dfa.opcode_count,
                                            ![x].first = dfa.opcode_count]
                /\ dfa' = dfa
           ELSE /\ states' = [states EXCEPT ![x].accept = accept1,
                                            ![x].index = dfa.opcode_count,
                                            ![x].first = dfa.opcode_count,
                                            ![x].edges = edges1]
                /\ dfa' = [dfa EXCEPT !.opcode_count = count,
                                      !.current_state = st.next]
                /\ parser' = IF valid_goto_index(count) THEN parser
                             ELSE emit(parser, "ExceedsLimits")
                /\ pc' = IF valid_goto_index(count) THEN "encode" ELSE "failed"
  /\ UNCHANGED <<start_cell, table, current_state, state, last_state, todo, moves,
                 subpattern_is_accepting, runs, visited, previous, made>>

(***************************************************************************)
(* compiler.rs: encode_dfa, the second counting pass.  It runs when        *)
(* opcode_count > bitmasks::LONG, the opcode 0xFF000000.                   *)
(***************************************************************************)
\* bitmasks::LONG / 2
HalfLong == Word(127, 128, 0, 0)

\* the target of an edge needs the two-word GOTO LONG; s is the state of
\* the edge, t its target
use_64bit(s, t) ==
  /\ ~is_null(t)
  /\ \/ t.first > s.first /\ ~WordLess(ToWord(t.first), HalfLong)
     \/ ~WordLess(ToWord(t.index), LONG)

\* scan_and_count_edges with the closure of the second pass;
\* g = [lo, hi, count, panic], ks the keys still to scan.  The closure
\* borrows the target mutably while the state x is borrowed mutably
RECURSIVE ScanLong(_, _, _, _, _)
ScanLong(g, sts, x, ks, checks) ==
  IF ks = <<>> \/ g.panic # "" THEN g
  ELSE
    LET key == Head(ks)
        e == sts[x].edges[key]
        under == g.lo = key /\ e.lo = 0
        lo1 == IF g.lo # key THEN g.lo
               ELSE IF e.lo = 0 THEN IterMod - 1 ELSE e.lo - 1
        multiplier == IF use_64bit(sts[x], StateAt(sts, e.target)) THEN 2 ELSE 1
        sum == multiplier + (IF is_meta(lo1) THEN multiplier * (key - e.lo) ELSE 0)
    IN  IF under /\ checks THEN [g EXCEPT !.panic = "PanicOverflow"]
        ELSE IF e.target = x THEN [g EXCEPT !.panic = "PanicBorrow"]
        ELSE ScanLong([lo |-> lo1, hi |-> key, count |-> g.count + sum, panic |-> ""],
                      sts, x, Tail(ks), checks)

\* the loop of the second pass from the state x on; r = [states, count, err]
RECURSIVE SecondPass(_, _, _)
SecondPass(r, x, checks) ==
  IF x = 0 \/ r.err # "" THEN r
  ELSE
    LET sts1 == [r.states EXCEPT ![x].index = r.count]
        g == ScanLong([lo |-> 255, hi |-> 0, count |-> r.count, panic |-> ""],
                      sts1, x, Reverse(SortKeys(DOMAIN sts1[x].edges)), checks)
        count == g.count + Cardinality(sts1[x].heads) + Cardinality(sts1[x].tails)
                 + (IF sts1[x].accept > 0 \/ sts1[x].redo THEN 1 ELSE 0)
    IN  IF g.panic # "" THEN [states |-> sts1, count |-> g.count, err |-> g.panic]
        ELSE IF ~valid_goto_index(count)
          THEN [states |-> sts1, count |-> count, err |-> "ExceedsLimits"]
        ELSE SecondPass([states |-> sts1, count |-> count, err |-> ""],
                        sts1[x].next, checks)

\* the first loop of encode_dfa is over: the second pass, if the count
\* asks for it, and the opcode table allocated
EncodeDone ==
  /\ pc = "encode"
  /\ dfa.current_state = 0
  /\ LET long == WordLess(LONG, ToWord(dfa.opcode_count))
         r == IF long
                THEN SecondPass([states |-> states, count |-> 0, err |-> ""], 1,
                                parser.overflow_checks)
                ELSE [states |-> states, count |-> dfa.opcode_count, err |-> ""]
     IN  /\ states' = r.states
         /\ dfa' = [dfa EXCEPT !.opcode_count = r.count, !.current_state = 1]
         /\ parser' = IF r.err = "" THEN parser ELSE emit(parser, r.err)
         /\ pc' = IF r.err = "" THEN "emit" ELSE "failed"
  /\ UNCHANGED <<start_cell, table, current_state, state, last_state, todo, moves,
                 subpattern_is_accepting, runs, visited, previous, made>>

(***************************************************************************)
(* compiler.rs: encode_dfa, the loop that pushes the opcodes, one state of *)
(* the next chain at a time                                                *)
(***************************************************************************)
valid_lookahead_index(index) == index <= LOOKAHEAD_MAX_IDX

\* the closure push_opcode: the words it pushes for the chars lo, hi of an
\* edge of the state s with the target t
push_opcode(lo, hi, s, t, count) ==
  LET target_first == IF is_null(t) THEN IMAX_IDX ELSE ToWord(t.first)
      target_index == IF is_null(t) THEN IMAX_IDX ELSE ToWord(t.index)
  IN  IF target_index = IMAX_IDX THEN <<opcode_goto(lo, hi, HALT)>>
      ELSE IF /\ WordLess(LONG, ToWord(count))
              /\ \/ /\ WordLess(ToWord(s.first), target_first)
                    /\ ~WordLess(target_first, HalfLong)
                 \/ ~WordLess(target_index, LONG)
        THEN <<opcode_goto(lo, hi, LONG), opcode_long(target_index)>>
      ELSE <<opcode_goto(lo, hi, target_index)>>

\* the loop `push_opcode(lo, lo); lo += 1; if lo <= hi { break }` run n
\* times from lo on: the words of its turns, one after the other
MetaTurns(lo, n, s, t, count) ==
  LET width == Len(push_opcode(lo, lo, s, t, count))
  IN  [i \in 1..(width * n) |->
         push_opcode(lo + (i - 1) \div width, lo + (i - 1) \div width, s, t,
                     count)[((i - 1) % width) + 1]]

\* the words of one edge lo..hi, [words, err].  With lo < hi the loop
\* leaves after its first turn; with lo = hi it goes on until lo += 1
\* overflows the u16 at 0xFFFF: a panic under overflow checks, else lo is
\* 0 and the loop leaves
EdgeWords(lo, hi, s, t, count, checks) ==
  IF ~is_meta(lo) THEN [words |-> push_opcode(lo, hi, s, t, count), err |-> ""]
  ELSE IF lo + 1 <= hi THEN [words |-> MetaTurns(lo, 1, s, t, count), err |-> ""]
  ELSE [words |-> MetaTurns(lo, IterMod - lo, s, t, count),
        err |-> IF checks THEN "PanicOverflow" ELSE ""]

\* the loop over the edges of the state x from the highest key down;
\* r = [words, err].  The target is borrowed while x is borrowed mutably
RECURSIVE EmitEdges(_, _, _, _, _, _)
EmitEdges(r, sts, x, ks, count, checks) ==
  IF ks = <<>> \/ r.err # "" THEN r
  ELSE LET key == Head(ks)
           e == sts[x].edges[key]
           w == EdgeWords(e.lo, key, sts[x], StateAt(sts, e.target), count, checks)
       IN  IF e.target = x THEN [r EXCEPT !.err = "PanicBorrow"]
           ELSE EmitEdges([words |-> r.words \o w.words, err |-> w.err],
                          sts, x, Tail(ks), count, checks)

\* the loop over a lookahead set, ids in ascending order: every id is
\* pushed by opcode_tail
LookaheadWords(ids) == [i \in 1..Len(ids) |-> opcode_tail(ToWord(ids[i]))]

\* REDO or TAKE, then the tails and the heads
StateWords(st) ==
  (IF st.redo THEN <<OPCODE_REDO>>
   ELSE IF st.accept > 0 THEN <<opcode_take(ToWord(st.accept))>> ELSE <<>>)
  \o LookaheadWords(SortKeys(st.tails))
  \o LookaheadWords(SortKeys(st.heads))

\* the body of the last loop of encode_dfa for the next state
EmitState ==
  /\ pc = "emit"
  /\ dfa.current_state # 0
  /\ LET x == dfa.current_state
         st == states[x]
         valid == \A i \in st.tails \cup st.heads : valid_lookahead_index(i)
         r == EmitEdges([words |-> StateWords(st), err |-> ""], states, x,
                        Reverse(SortKeys(DOMAIN st.edges)), dfa.opcode_count,
                        parser.overflow_checks)
         err == IF ~valid THEN "ExceedsLimits" ELSE r.err
     IN  /\ dfa' = IF err # "" THEN dfa
                   ELSE [dfa EXCEPT !.opcode_table = @ \o r.words,
                                    !.offsets = @ @@ (x :> Len(dfa.opcode_table)),
                                    !.current_state = st.next]
         /\ parser' = IF err = "" THEN parser ELSE emit(parser, err)
         /\ pc' = IF err = "" THEN "emit" ELSE "failed"
  /\ UNCHANGED <<states, start_cell, table, current_state, state, last_state, todo,
                 moves, subpattern_is_accepting, runs, visited, previous, made>>

\* the last loop of encode_dfa is over
EmitDone ==
  /\ pc = "emit"
  /\ dfa.current_state = 0
  /\ pc' = "encoded"
  /\ UNCHANGED <<parser, states, start_cell, table, current_state, state, last_state,
                 todo, moves, subpattern_is_accepting, runs, visited, previous, dfa,
                 made>>

(***************************************************************************)
(* The regular expressions the parser is constructed with                  *)
(***************************************************************************)
Regexes ==
  { Rx(<<"a", "*">>),
    Rx(<<"a", "+">>),
    Rx(<<"a", "b", "c">>),
    Rx(<<"(", "a", "b", ")", "{", "2", ",", "3", "}">>),
    Rx(<<"a", "*", "|", "b", "*">>),
    Rx(<<"a", ".">>),
    Rx(<<".">>),
    Rx(<<"(", "?", "s", ")", ".">>),
    Rx(<<"[", "a", "-", "c", "]", "x">>),
    Rx(<<"^", "a">>),
    Rx(<<"a", "$">>),
    Rx(<<"(", "a", "?", ")", "{", "3", "}">>),
    Rx(<<"a", "*", "?", "b">>),
    Rx(<<"a", "(", "?", "=", "b", ")">>),
    Rx(<<"(", "a">>),
    Rx(<<"a", "{">>),
    Rx(<<".", "a">>),
    Rx(<<"(", "?", "s", ")", ".", "a">>),
    Rx(<<"$", "a">>),
    Rx(<<"[", "a", "b", "]", "x", "|", "[", "c", "d", "]", "z">>),
    Rx(<<"c", "*", "|", "(", "?", "^", "a", "*", "?", ")">>),
    Rx(<<"a", "{", "3", "}", "b", "{", "3", "}">>),
    Rx(<<"(", "?", "=", "a", ")", "b">>),
    Rx(<<"(", "?", "i", ")", "a">>),
    Rx(<<"(", "?", "m", ")", "a", "$">>),
    Rx(<<"a", "{", "0", "}", "{", "1", "0", "0", "0", "}", "{", "1", "0", "0", "0", "}">>) }

Builds == BOOLEAN

Init ==
  /\ parser \in {NewParser(r, DefaultOptions, oc) : r \in Regexes, oc \in Builds}
  /\ pc = "new"
  /\ states = <<with_pos(StartPtr)>>
  /\ start_cell = {}
  /\ table = <<>>
  /\ current_state = 0
  /\ state = 0
  /\ last_state = 0
  /\ todo = <<>>
  /\ moves = <<>>
  /\ subpattern_is_accepting = <<>>
  /\ runs = 0
  /\ dfa = NoDfa
  /\ visited = <<>>
  /\ previous = <<>>
  /\ made = <<>>

\* Parser::build: parse, compile, then Compiler::assemble
Next ==
  \/ Parse
  \/ CompileInit
  \/ IterNext
  \/ CompileTransitionStep
  \/ TrimMoves
  \/ MaterializeMove
  \/ FinishState
  \/ IterDone
  \/ PredictPrefix
  \/ PredictLevel
  \/ EncodeState
  \/ EncodeDone
  \/ EmitState
  \/ EmitDone

Spec == Init /\ [][Next]_vars

(***************************************************************************)
(* compile() entered again on the Parser it has already compiled           *)
(***************************************************************************)
MaxRuns == 2

Recompile ==
  /\ pc = "compiled"
  /\ runs < MaxRuns
  /\ EnterCompile

NextRerun ==
  \/ Parse
  \/ CompileInit
  \/ IterNext
  \/ CompileTransitionStep
  \/ TrimMoves
  \/ MaterializeMove
  \/ FinishState
  \/ IterDone
  \/ Recompile

SpecRerun == Init /\ [][NextRerun]_vars

(***************************************************************************)
(* compile_transition on a state whose positions are accepting positions:  *)
(* the accept arm alone, for every set of up to MaxSet such positions       *)
(***************************************************************************)
MaxAccept == 2
MaxLazy == 2
MaxSet == 3

\* the accepting positions Group::append_idx_as_lazy_accepted and the (?^
\* arm make, with the lazy tag the follow arm of compile_transition puts
\* on the positions it memoizes
AcceptPositions ==
  {set_lazy(set_accept(Pos(i), TRUE), l) : i \in 0..MaxAccept, l \in 0..MaxLazy}

InitAccept ==
  /\ parser = parse(NewParser(Rx(<<"a", "*">>), DefaultOptions, TRUE))
  /\ pc = "transition"
  /\ states = <<with_pos(StartPtr)>>
  /\ start_cell \in {S \in SUBSET AcceptPositions : Cardinality(S) <= MaxSet}
  /\ table = (StartPtr :> 1)
  /\ current_state = 0
  /\ state = 1
  /\ last_state = 1
  /\ todo = SortPos(start_cell)
  /\ moves = <<>>
  /\ subpattern_is_accepting = <<FALSE>>
  /\ runs = 1
  /\ dfa = NoDfa
  /\ visited = <<1>>
  /\ previous = states
  /\ made = <<>>

NextAccept ==
  \/ CompileTransitionStep
  \/ TrimMoves

SpecAccept == InitAccept /\ [][NextAccept]_vars

(***************************************************************************)
(* parse() and compile() on a sub-expression under one of the two          *)
(* quantifiers `*` and `{0,}`                                              *)
(***************************************************************************)
SubExprs ==
  { Rx(<<"a">>),
    Rx(<<"a", "b">>),
    Rx(<<"(", "a", "b", ")">>),
    Rx(<<"(", "a", "|", "b", ")">>),
    Rx(<<"(", "a", "?", ")">>),
    Rx(<<"(", "a", "*", "?", "b", ")">>),
    Rx(<<"[", "a", "b", "]">>),
    Rx(<<"(", "a", "+", ")">>),
    Rx(<<"(", "a", "{", "2", "}", ")">>),
    Rx(<<".">>) }

Star == Rx(<<"*">>)
ZeroOrMore == Rx(<<"{", "0", ",", "}">>)

InitStar ==
  /\ parser \in {NewParser(x \o q, DefaultOptions, oc) :
                    x \in SubExprs, q \in {Star, ZeroOrMore}, oc \in Builds}
  /\ pc = "new"
  /\ states = <<with_pos(StartPtr)>>
  /\ start_cell = {}
  /\ table = <<>>
  /\ current_state = 0
  /\ state = 0
  /\ last_state = 0
  /\ todo = <<>>
  /\ moves = <<>>
  /\ subpattern_is_accepting = <<>>
  /\ runs = 0
  /\ dfa = NoDfa
  /\ visited = <<>>
  /\ previous = <<>>
  /\ made = <<>>

NextStar ==
  \/ Parse
  \/ CompileInit
  \/ IterNext
  \/ CompileTransitionStep
  \/ TrimMoves
  \/ MaterializeMove
  \/ FinishState
  \/ IterDone

SpecStar == InitStar /\ [][NextStar]_vars

(***************************************************************************)
(* encode_dfa on automata as the subset construction is specified to       *)
(* leave them: the states in the order of the next chain, 1 the start      *)
(***************************************************************************)
Node(edges, accept, redo, heads, tails) ==
  [with_pos(StartPtr) EXCEPT !.edges = edges, !.accept = accept, !.redo = redo,
                             !.heads = heads, !.tails = tails]
Edge(lo, target) == [lo |-> lo, target |-> target]
\* the chain of the nodes, each with a cell of its own
Automaton(nodes) ==
  [i \in 1..Len(nodes) |->
     [nodes[i] EXCEPT !.positions = [hi |-> -1, lo |-> i - 1],
                      !.next = IF i < Len(nodes) THEN i + 1 ELSE 0]]

\* every u16 is a lookahead id of the state
AllLookaheads == 0..(IterMod - 1)
\* as many states with every lookahead id in heads and tails as take the
\* opcode count over GOTO_MAX_IDX
ManyStates == GOTO_MAX_IDX \div (2 * IterMod) + 1

Automata ==
  { \* abc
    Automaton(<<Node((97 :> Edge(97, 2)), 0, FALSE, {}, {}),
                Node((98 :> Edge(98, 3)), 0, FALSE, {}, {}),
                Node((99 :> Edge(99, 4)), 0, FALSE, {}, {}),
                Node(<<>>, 1, FALSE, {}, {})>>),
    \* a(?=b)
    Automaton(<<Node((97 :> Edge(97, 2)), 0, FALSE, {}, {}),
                Node((98 :> Edge(98, 3)), 0, FALSE, {0}, {}),
                Node(<<>>, 1, FALSE, {}, {0})>>),
    \* a*
    Automaton(<<Node((97 :> Edge(97, 1)), 1, FALSE, {}, {})>>),
    \* a+
    Automaton(<<Node((97 :> Edge(97, 2)), 0, FALSE, {}, {}),
                Node((97 :> Edge(97, 2)), 1, FALSE, {}, {})>>),
    \* [a-c]x|(?^z)
    Automaton(<<Node((99 :> Edge(97, 2)) @@ (122 :> Edge(122, 3)), 0, FALSE, {}, {}),
                Node((120 :> Edge(120, 4)), 0, FALSE, {}, {}),
                Node(<<>>, 0, TRUE, {}, {}),
                Node(<<>>, 1, FALSE, {}, {})>>),
    \* \ba: an edge over the meta chars BeginWordBegin..EndWordBegin
    Automaton(<<Node((EndWordBegin :> Edge(BeginWordBegin, 2)), 0, FALSE, {}, {}),
                Node((97 :> Edge(97, 3)), 0, FALSE, {}, {}),
                Node(<<>>, 1, FALSE, {}, {})>>),
    \* ^a: an edge over the one meta char BeginningOfBuffer
    Automaton(<<Node((BeginningOfBuffer :> Edge(BeginningOfBuffer, 2)), 0, FALSE, {}, {}),
                Node((97 :> Edge(97, 3)), 0, FALSE, {}, {}),
                Node(<<>>, 1, FALSE, {}, {})>>),
    \* (?s).a: the edges of the start state cover every byte
    Automaton(<<Node((255 :> Edge(0, 2)), 0, FALSE, {}, {}),
                Node((97 :> Edge(97, 3)), 0, FALSE, {}, {}),
                Node(<<>>, 1, FALSE, {}, {})>>),
    \* (?s)[^a].|a: three edges that cover every byte
    Automaton(<<Node((96 :> Edge(0, 2)) @@ (97 :> Edge(97, 3)) @@ (255 :> Edge(98, 2)),
                     0, FALSE, {}, {}),
                Node((255 :> Edge(0, 3)), 0, FALSE, {}, {}),
                Node(<<>>, 1, FALSE, {}, {})>>),
    \* an accept id over ACCEPT_MAX
    Automaton(<<Node((97 :> Edge(97, 2)), 0, FALSE, {}, {}),
                Node(<<>>, ACCEPT_MAX + 1, FALSE, {}, {})>>),
    \* more than 0xFFFF opcodes: a forward jump over 0x10000 words
    Automaton(<<Node((97 :> Edge(97, 2)), 0, FALSE, AllLookaheads, {}),
                Node((98 :> Edge(98, 1)), 1, FALSE, {}, {})>>),
    \* more than GOTO_MAX_IDX opcodes
    Automaton([i \in 1..ManyStates |->
                 Node(<<>>, 1, FALSE, AllLookaheads, AllLookaheads)]) }

InitEncode ==
  /\ parser \in {NewParser(Rx(<<"a">>), DefaultOptions, oc) : oc \in Builds}
  /\ pc = "encode"
  /\ states \in Automata
  /\ start_cell = {}
  /\ table = <<>>
  /\ current_state = 0
  /\ state = 0
  /\ last_state = 0
  /\ todo = <<>>
  /\ moves = <<>>
  /\ subpattern_is_accepting = <<>>
  /\ runs = 0
  /\ dfa = [NoDfa EXCEPT !.current_state = 1]
  /\ visited = <<>>
  /\ previous = <<>>
  /\ made = <<>>

NextEncode ==
  \/ EncodeState
  \/ EncodeDone
  \/ EmitState
  \/ EmitDone

SpecEncode == InitEncode /\ [][NextEncode]_vars

(***************************************************************************)
(* The predictor and the encoder on the same automata, the large ones left *)
(* out: build() after compile()                                            *)
(***************************************************************************)
InitPredict ==
  /\ parser \in {NewParser(Rx(<<"a">>), DefaultOptions, oc) : oc \in Builds}
  /\ pc = "compiled"
  /\ states \in {a \in Automata : Len(a) < ManyStates /\ a[1].heads # AllLookaheads}
  /\ start_cell = {}
  /\ table = <<>>
  /\ current_state = 0
  /\ state = 0
  /\ last_state = 0
  /\ todo = <<>>
  /\ moves = <<>>
  /\ subpattern_is_accepting = <<>>
  /\ runs = 0
  /\ dfa = NoDfa
  /\ visited = <<>>
  /\ previous = <<>>
  /\ made = <<>>

NextPredict ==
  \/ PredictPrefix
  \/ PredictLevel
  \/ EncodeState
  \/ EncodeDone
  \/ EmitState
  \/ EmitDone

SpecPredict == InitPredict /\ [][NextPredict]_vars

(***************************************************************************)
(* The opcode constructors on their own: one word is built by one call     *)
(***************************************************************************)
GotoBytes == {0, 1, 97, 127, 254, 255}
GotoIndexes == {0, 1, 255, 256, 65534, 65535}
MetaChars == {NonWordBoundary, BeginningOfLine, DedentBoundary}
TakeIndexes == {0, 1, 65535, 65536, ACCEPT_MAX}
LookaheadIndexes == {0, 1, 65536, LOOKAHEAD_MAX_IDX}
LongIndexes == {0, 1, 65536, GOTO_MAX_IDX}

InitOpcode ==
  /\ parser \in {NewParser(Rx(<<"a">>), DefaultOptions, oc) : oc \in Builds}
  /\ pc = "opcode"
  /\ states = <<with_pos(StartPtr)>>
  /\ start_cell = {}
  /\ table = <<>>
  /\ current_state = 0
  /\ state = 0
  /\ last_state = 0
  /\ todo = <<>>
  /\ moves = <<>>
  /\ subpattern_is_accepting = <<>>
  /\ runs = 0
  /\ dfa = NoDfa
  /\ visited = <<>>
  /\ previous = <<>>
  /\ made = <<>>

\* the word w is pushed and the call that built it recorded
Make(op, lo, hi, index, w) ==
  /\ pc = "opcode"
  /\ made = <<>>
  /\ dfa' = [dfa EXCEPT !.opcode_table = Append(@, w)]
  /\ made' = Append(made, [op |-> op, lo |-> lo, hi |-> hi, index |-> index])
  /\ UNCHANGED <<parser, pc, states, start_cell, table, current_state, state,
                 last_state, todo, moves, subpattern_is_accepting, runs, visited,
                 previous>>

MakeGoto ==
  \E lo \in GotoBytes, hi \in GotoBytes, index \in GotoIndexes :
    lo <= hi /\ Make("goto", lo, hi, index, opcode_goto(lo, hi, ToWord(index)))
MakeMeta ==
  \E c \in MetaChars, index \in GotoIndexes :
    Make("meta", c, c, index, opcode_goto(c, c, ToWord(index)))
MakeTake == \E index \in TakeIndexes : Make("take", 0, 0, index, opcode_take(ToWord(index)))
MakeHead == \E index \in LookaheadIndexes : Make("head", 0, 0, index, opcode_head(ToWord(index)))
MakeTail == \E index \in LookaheadIndexes : Make("tail", 0, 0, index, opcode_tail(ToWord(index)))
MakeLong == \E index \in LongIndexes : Make("long", 0, 0, index, opcode_long(ToWord(index)))
MakeRedo == Make("redo", 0, 0, 0, REDO)

NextOpcode ==
  \/ MakeGoto
  \/ MakeMeta
  \/ MakeTake
  \/ MakeHead
  \/ MakeTail
  \/ MakeLong
  \/ MakeRedo

SpecOpcode == InitOpcode /\ [][NextOpcode]_vars

(***************************************************************************)
(* parse() on its own, on every regex of letters, groups and alternations  *)
(* up to a length, and on some regexes with other tokens                   *)
(***************************************************************************)
ParseLen == 5
GroupTokens == {"a", "b", "(", ")", "|"}
MaxNest == 3
\* the groups open after the first n bytes of rx, counted as parse() does
\* not: a `)` without a `(` closes nothing
RECURSIVE Open(_, _)
Open(rx, n) ==
  IF n = 0 THEN 0
  ELSE IF rx[n] = Byte["("] THEN Open(rx, n - 1) + 1
  ELSE IF rx[n] = Byte[")"] /\ Open(rx, n - 1) > 0 THEN Open(rx, n - 1) - 1
  ELSE Open(rx, n - 1)
GroupRegexes ==
  {rx \in UNION {{Rx(t) : t \in [1..n -> GroupTokens]} : n \in 1..ParseLen} :
     \A n \in 1..Len(rx) : Open(rx, n) <= MaxNest}
\* groups of three alternatives and groups within an alternative
AltRegexes ==
  {Rx(<<"(", "a", "|", "b", "|", "a", ")", "b">>),
   Rx(<<"a", "(", "a", "|", "b", "|", "a", "b", ")", "b">>),
   Rx(<<"(", "a", "|", "(", "b", "|", "a", ")", "|", "b", ")", "a">>),
   Rx(<<"(", "(", "a", "|", "b", ")", "(", "b", "|", "a", ")", ")", "a">>)}
\* two or three lazy quantifiers in one alternative: in a row, in the
\* branches of a group, in a group and after it
LazyRegexes ==
  {Rx(<<"a", "*", "?", "b", "*", "?">>),
   Rx(<<"a", "*", "?", "b", "+", "?", "a", "?", "?">>),
   Rx(<<"(", "a", "*", "?", "|", "b", "*", "?", ")">>),
   Rx(<<"(", "a", "b", "*", "?", "|", "b", "*", "?", ")">>),
   Rx(<<"(", "a", "*", "?", ")", "b", "*", "?">>),
   Rx(<<"(", "a", "|", "b", "*", "?", ")", "a", "*", "?">>),
   Rx(<<"a", "{", "1", ",", "2", "}", "?", "b", "*", "?">>)}
\* a scoped (?-i:X) before, between and after letters
ModeRegexes ==
  {Rx(<<"(", "?", "-", "i", ":", "a", ")", "b">>),
   Rx(<<"b", "(", "?", "-", "i", ":", "a", "b", ")", "b", "a">>),
   Rx(<<"a", "b", "(", "?", "-", "i", ":", "b", ")">>)}
\* a leading ^ and a quotation \Q...\E
OffsetRegexes ==
  {Rx(<<"^", "a">>),
   Rx(<<"^", "a", "(", "b", ")">>),
   Rx(<<"\\", "Q", "a", "b", "\\", "E", "(", "a", ")">>),
   Rx(<<"(", "a", ")", "\\", "Q", "b", "a", "b", "\\", "E">>)}
OtherRegexes == AltRegexes \cup LazyRegexes \cup OffsetRegexes
\* the global option i, as Options has it after `insensitive_case(true)`
CaseOptions == [DefaultOptions EXCEPT !.insensitive_case = TRUE]

InitParse ==
  /\ parser \in {NewParser(r, DefaultOptions, oc) :
                   r \in GroupRegexes \cup OtherRegexes, oc \in Builds}
               \cup {NewParser(r, CaseOptions, oc) : r \in ModeRegexes, oc \in Builds}
  /\ pc = "new"
  /\ states = <<with_pos(StartPtr)>>
  /\ start_cell = {}
  /\ table = <<>>
  /\ current_state = 0
  /\ state = 0
  /\ last_state = 0
  /\ todo = <<>>
  /\ moves = <<>>
  /\ subpattern_is_accepting = <<>>
  /\ runs = 0
  /\ dfa = NoDfa
  /\ visited = <<>>
  /\ previous = <<>>
  /\ made = <<>>

NextParse == Parse

SpecParse == InitParse /\ [][NextParse]_vars

(***************************************************************************)
(* transition() on its own: the positions of one state, each with its      *)
(* chars and its followpos cell, are passed through it one after the other *)
(***************************************************************************)
MoveChars == {{97}, {98}, {97, 98}}
FollowSets == {{Pos(4)}, {Pos(5)}, {Pos(4), Pos(5)}}
\* the calls compile_transition makes for a state of three positions
Calls ==
  {[i \in 1..3 |-> [chars |-> c[i], positions |-> Pos(i), follow |-> f[i]]] :
     c \in [1..3 -> MoveChars], f \in [1..3 -> FollowSets]}

InitTransition ==
  /\ made \in Calls
  /\ todo = made
  /\ parser \in {[NewParser(Rx(<<"a">>), DefaultOptions, oc)
                     EXCEPT !.follow = [q \in {Pos(i) : i \in 1..3} |-> made[idx(q)].follow]] :
                   oc \in Builds}
  /\ pc = "merge"
  /\ states = <<with_pos(StartPtr)>>
  /\ start_cell = {}
  /\ table = <<>>
  /\ current_state = 0
  /\ state = 1
  /\ last_state = 0
  /\ moves = <<>>
  /\ subpattern_is_accepting = <<>>
  /\ runs = 0
  /\ dfa = NoDfa
  /\ visited = <<>>
  /\ previous = <<>>

\* self.transition(&mut chars, follow) for the next position
TransitionCall ==
  /\ pc = "merge"
  /\ todo # <<>>
  /\ LET t == transition(parser, moves, Head(todo).chars, Head(todo).positions,
                         states[state].positions)
     IN  /\ parser' = t.ps
         /\ moves' = t.moves
         /\ pc' = IF Ok(t.ps) THEN "merge" ELSE "failed"
  /\ todo' = Tail(todo)
  /\ UNCHANGED <<states, start_cell, table, current_state, state, last_state,
                 subpattern_is_accepting, runs, visited, previous, made, dfa>>

NextTransition == TransitionCall

SpecTransition == InitTransition /\ [][NextTransition]_vars

(***************************************************************************)
(* The setters of Position on their own: one call on one position          *)
(***************************************************************************)
PositionIndexes == {0, 65, 65535}
PositionIterations == {0, 37, 65535}
PositionLazies == {0, 24, 127}
Positions ==
  {[hi |-> it + (IF t THEN TICKED ELSE 0) + (IF g THEN GREEDY ELSE 0)
             + (IF an THEN ANCHOR ELSE 0) + (IF ac THEN ACCEPT ELSE 0) + lz * LAZY_SL,
    lo |-> i] :
     i \in PositionIndexes, it \in PositionIterations, lz \in PositionLazies,
     t \in BOOLEAN, g \in BOOLEAN, an \in BOOLEAN, ac \in BOOLEAN}

InitPosition ==
  /\ parser \in {NewParser(Rx(<<"a">>), DefaultOptions, oc) : oc \in Builds}
  /\ pc = "position"
  /\ states = <<with_pos(StartPtr)>>
  /\ start_cell = {}
  /\ table = <<>>
  /\ current_state = 0
  /\ state = 0
  /\ last_state = 0
  /\ todo = <<>>
  /\ moves = <<>>
  /\ subpattern_is_accepting = <<>>
  /\ runs = 0
  /\ dfa = NoDfa
  /\ visited = <<>>
  /\ previous = <<>>
  /\ made = <<>>

\* the call op(arg) on the position p has returned q
Called(op, p, arg, q) ==
  /\ pc = "position"
  /\ made = <<>>
  /\ made' = <<[op |-> op, p |-> p, arg |-> arg, q |-> q]>>
  /\ UNCHANGED <<parser, pc, states, start_cell, table, current_state, state,
                 last_state, todo, moves, subpattern_is_accepting, runs, visited,
                 previous, dfa>>

CallSetAccept ==
  \E p \in Positions, b \in BOOLEAN : Called("set_accept", p, b, set_accept(p, b))
CallSetAnchor ==
  \E p \in Positions, b \in BOOLEAN : Called("set_anchor", p, b, set_anchor(p, b))
CallSetGreedy ==
  \E p \in Positions, b \in BOOLEAN : Called("set_greedy", p, b, set_greedy(p, b))
CallSetTicked ==
  \E p \in Positions, b \in BOOLEAN : Called("set_ticked", p, b, set_ticked(p, b))
CallSetLazy ==
  \E p \in Positions, v \in PositionLazies : Called("set_lazy", p, v, set_lazy(p, v))
CallIncrementIter ==
  \E p \in Positions, i \in PositionIterations :
    Called("increment_iter", p, i, increment_iter(p, i))

NextPosition ==
  \/ CallSetAccept
  \/ CallSetAnchor
  \/ CallSetGreedy
  \/ CallSetTicked
  \/ CallSetLazy
  \/ CallIncrementIter

SpecPosition == InitPosition /\ [][NextPosition]_vars

(***************************************************************************)
(* Properties of the finished automaton                                    *)
(***************************************************************************)
\* the states of the next chain of the start state
RECURSIVE ChainFrom(_, _, _)
ChainFrom(sts, id, seen) ==
  IF id = NullState \/ id \in seen THEN seen
  ELSE ChainFrom(sts, sts[id].next, seen \cup {id})

\* the edge of the null target over lo = 0: the halt edge of the encoder
IsHaltEdge(e) == e.lo = 0 /\ e.target = NullState

\* no char lies in the ranges lo..hi of two edges of st
EdgesDisjoint(st) ==
  \A h1, h2 \in DOMAIN st.edges : h1 < h2 => h1 < st.edges[h2].lo

\* two edges of st that share a char: one of them is a halt edge
OverlapsAreHalt(st) ==
  \A h1, h2 \in DOMAIN st.edges :
    (h1 < h2 /\ st.edges[h2].lo <= h1)
      => IsHaltEdge(st.edges[h1]) \/ IsHaltEdge(st.edges[h2])

BeforeEncoder ==
  pc \in {"new", "parsed", "iterate", "transition", "moves", "compiled", "predict"}

C2_StatesUniqueByPositions ==
  pc = "compiled"
    => \A i, j \in 1..Len(states) :
         Cell(parser, start_cell, states[i].positions)
           = Cell(parser, start_cell, states[j].positions) => i = j

\* C3, as the claim states it: when compile() is over its loop has been
\* handed every state of the table exactly once, and the next chain holds
\* every state of the table.
C3_EveryStateVisitedOnce ==
  pc = "compiled"
    => /\ \A k \in DOMAIN table :
            Cardinality({i \in 1..Len(visited) : visited[i] = table[k]}) = 1
       /\ {table[k] : k \in DOMAIN table} \subseteq ChainFrom(states, 1, {})

\* C4, as the claim states it: after the parse of a regex without string
\* alternatives, followpos of every last position p of the last top-level
\* alternative, under the index-and-iteration key of p, holds the accept
\* position of that alternative.
C4_LastPositionsFollowedByAccept ==
  (pc = "parsed" /\ parser.strings = <<>>)
    => \A p \in parser.group.last_positions :
         /\ index_with_iter(p) \in DOMAIN parser.follow
         /\ \E q \in parser.follow[index_with_iter(p)] :
              is_accept(q) /\ accepts(q) = parser.group.idx

\* the accept ids of the accepting positions of a position set
AcceptIds(S) == {accepts(p) : p \in {q \in S : is_accept(q)}}

\* the smallest nonzero id of a set of accept ids, 0 if there is none
MinNonzero(A) ==
  IF A \ {0} = {} THEN 0 ELSE CHOOSE a \in A \ {0} : \A b \in A \ {0} : a <= b

C6_OneNonzeroAcceptPerState ==
  pc = "compiled"
    => \A s \in 1..Len(states) :
         Cardinality({p \in Cell(parser, start_cell, states[s].positions) :
                        is_accept(p) /\ accepts(p) # 0}) <= 1

\* the states reached from the start state over the edges
RECURSIVE ReachFrom(_, _, _)
ReachFrom(sts, todoIds, seen) ==
  IF todoIds \subseteq seen THEN seen
  ELSE ReachFrom(sts,
                 UNION {{sts[s].edges[h].target : h \in DOMAIN sts[s].edges} :
                          s \in todoIds \ seen} \ {NullState},
                 seen \cup todoIds)

Reach(sts) == ReachFrom(sts, {1}, {})

\* f renames the reachable states of A to those of B: start to start, and
\* the accept ids and the edges are the same
Renames(A, B, f) ==
  /\ f[1] = 1
  /\ \A s, t \in DOMAIN f : f[s] = f[t] => s = t
  /\ \A s \in DOMAIN f :
       /\ A[s].accept = B[f[s]].accept
       /\ DOMAIN A[s].edges = DOMAIN B[f[s]].edges
       /\ \A h \in DOMAIN A[s].edges :
            /\ A[s].edges[h].lo = B[f[s]].edges[h].lo
            /\ IF A[s].edges[h].target = NullState
                 THEN B[f[s]].edges[h].target = NullState
                 ELSE /\ B[f[s]].edges[h].target # NullState
                      /\ f[A[s].edges[h].target] = B[f[s]].edges[h].target

Isomorphic(A, B) ==
  /\ Cardinality(Reach(A)) = Cardinality(Reach(B))
  /\ \E f \in [Reach(A) -> Reach(B)] : Renames(A, B, f)

\* C7, as the claim states it: the DFA compile() leaves when it is run a
\* second time on the same Parser is isomorphic to the DFA it left the
\* first time.
C7_RecompileIsomorphic ==
  (pc = "compiled" /\ runs = 2) => Isomorphic(previous, states)

\* the state the DFA is in after the input, from the state s
RECURSIVE Walk(_, _, _)
Walk(sts, s, input) ==
  IF s = NullState \/ input = <<>> THEN s
  ELSE Walk(sts,
            IF \E h \in DOMAIN sts[s].edges :
                 sts[s].edges[h].lo <= Head(input) /\ Head(input) <= h
              THEN sts[s].edges[CHOOSE h \in DOMAIN sts[s].edges :
                                  sts[s].edges[h].lo <= Head(input) /\ Head(input) <= h].target
              ELSE NullState,
            Tail(input))

\* the accept id the DFA gives the input, 0 when it does not accept it
Accepted(sts, input) ==
  IF Walk(sts, 1, input) = NullState THEN 0 ELSE sts[Walk(sts, 1, input)].accept

\* C8, as the claim states it: "abc" compiles to four states in a line,
\* the last accepting with id 1, and the predictor finds the prefix "abc",
\* min_pattern_length 3 and one_pre_string.
C8_AbcIsAChainOfFour ==
  parser.regex = Rx(<<"a", "b", "c">>)
    => /\ pc = "compiled"
            => /\ Cardinality(Reach(states)) = 4
               /\ Accepted(states, Rx(<<"a", "b", "c">>)) = 1
       /\ pc = "encoded"
            => /\ dfa.prefix = Rx(<<"a", "b", "c">>)
               /\ dfa.min_pattern_length = 3
               /\ dfa.one_pre_string

\* C9, as the claim states it: (ab){2,3} parses to a group that is not
\* nullable and has iteration 3, and its DFA accepts abab and ababab and
\* neither ab nor abababab.
C9_RepeatTwoToThree ==
  (parser.regex = Rx(<<"(", "a", "b", ")", "{", "2", ",", "3", "}">>) /\ pc = "compiled")
    => /\ ~parser.group.nullable
       /\ parser.group.iteration = 3
       /\ Accepted(states, Rx(<<"a", "b", "a", "b">>)) # 0
       /\ Accepted(states, Rx(<<"a", "b", "a", "b", "a", "b">>)) # 0
       /\ Accepted(states, Rx(<<"a", "b">>)) = 0
       /\ Accepted(states, Rx(<<"a", "b", "a", "b", "a", "b", "a", "b">>)) = 0

\* C10, as the claim states it: a repeat whose iteration times m is over
\* 65535 (a{0}{1000}{1000}: 1000 * 1000) fails with ExceedsLimits, and
\* a{3}b{3}, whose repeats stay below, parses without error.
C10_RepeatOverflowIsAnError ==
  pc # "new"
    => /\ parser.regex = Rx(<<"a", "{", "0", "}", "{", "1", "0", "0", "0", "}",
                              "{", "1", "0", "0", "0", "}">>)
            => parser.err = "ExceedsLimits"
       /\ (parser.regex = Rx(<<"a", "{", "3", "}", "b", "{", "3", "}">>) /\ pc = "parsed")
            => parser.err = ""

\* C11, as the claim states it: for a(?=b) the lookahead map holds one
\* interval, the state entered on a has the lookahead id 0 in its heads
\* and the state it reaches on b has the id 0 in its tails.
C11_LookaheadHeadAndTail ==
  (parser.regex = Rx(<<"a", "(", "?", "=", "b", ")">>) /\ pc = "compiled")
    => /\ Cardinality(DOMAIN parser.lookahead_map) = 1
       /\ \A k \in DOMAIN parser.lookahead_map : RangeCount(parser.lookahead_map[k]) = 1
       /\ Walk(states, 1, Rx(<<"a">>)) # NullState
       /\ 0 \in StateAt(states, Walk(states, 1, Rx(<<"a">>))).heads
       /\ Walk(states, 1, Rx(<<"a", "b">>)) # NullState
       /\ 0 \in StateAt(states, Walk(states, 1, Rx(<<"a", "b">>))).tails

\* the regex with its closing {0,} written as *
StarTwin(rx) ==
  IF Len(rx) > 4 /\ SubSeq(rx, Len(rx) - 3, Len(rx)) = ZeroOrMore
    THEN SubSeq(rx, 1, Len(rx) - 4) \o Star
    ELSE rx

\* C12, as the claim states it: the parse of X{0,} leaves the nullable
\* flag, the first positions (start_positions at the top level), the last
\* positions and followpos, flags included, as the parse of X* leaves them.
C12_ZeroOrMoreIsStar ==
  (pc = "parsed" /\ StarTwin(parser.regex) # parser.regex)
    => LET star == parse(NewParser(StarTwin(parser.regex), parser.options,
                                   parser.overflow_checks))
       IN  /\ parser.group.nullable = star.group.nullable
           /\ parser.start_positions = star.start_positions
           /\ parser.group.last_positions = star.group.last_positions
           /\ parser.follow = star.follow

\* C13, as the claim states it: after parse() with the global option i, m
\* or s set, the mode is set at every index of the regex from 0 up to and
\* including len - 1.
C13_GlobalModeCoversRegex ==
  pc = "parsed"
    => /\ parser.options.insensitive_case
            => \A i \in 0..(Len(parser.regex) - 1) : is_set(parser.modifiers, i, "i")
       /\ parser.options.multiline
            => \A i \in 0..(Len(parser.regex) - 1) : is_set(parser.modifiers, i, "m")
       /\ parser.options.single_line
            => \A i \in 0..(Len(parser.regex) - 1) : is_set(parser.modifiers, i, "s")

(***************************************************************************)
(* Properties of the opcode words                                          *)
(***************************************************************************)
\* the predicates of Opcode that hold of the word w
KindsOf(w) ==
  {k \in {"goto", "meta", "take", "head", "tail", "long", "redo"} :
     CASE k = "goto" -> op_is_goto(w)
       [] k = "meta" -> op_is_meta(w)
       [] k = "take" -> op_is_take(w)
       [] k = "head" -> op_is_head(w)
       [] k = "tail" -> op_is_tail(w)
       [] k = "long" -> op_is_long(w)
       [] k = "redo" -> op_is_redo(w)}

\* the decoders give back the arguments of the call c that built w
Decodes(c, w, checks) ==
  CASE c.op = "goto" -> /\ op_lo(w, checks) = c.lo
                        /\ op_hi(w, checks) = c.hi
                        /\ op_idx(w) = c.index
    [] c.op = "meta" -> /\ op_meta(w) = c.lo
                        /\ op_lo(w, checks) = c.lo
                        /\ op_hi(w, checks) = c.hi
                        /\ op_idx(w) = c.index
    [] c.op = "redo" -> TRUE
    [] OTHER -> op_long_idx(w) = c.index

\* C14, as the claim states it: of a word built by a constructor with
\* in-range arguments exactly the predicate of that constructor holds (and
\* is_meta does not panic), and lo, hi, meta, idx and long_idx give back
\* the arguments.
C14_OpcodeRoundTrip ==
  (pc = "opcode" /\ made # <<>>)
    => /\ ~ShiftPanics(BYTE4, parser.overflow_checks)
       /\ KindsOf(dfa.opcode_table[1]) = {made[1].op}
       /\ Decodes(made[1], dfa.opcode_table[1], parser.overflow_checks)

(***************************************************************************)
(* Properties of the opcode table encode_dfa emits                         *)
(***************************************************************************)
\* the words of the state x in the opcode table: the indexes from..to
SegmentFrom(x) == dfa.offsets[x] + 1
SegmentTo(x) ==
  IF states[x].next \in DOMAIN dfa.offsets THEN dfa.offsets[states[x].next]
  ELSE Len(dfa.opcode_table)

\* the target t of an edge of the state s is a forward jump of at least
\* 0x8000 or lies at an index of at least 0x10000
FarTarget(s, t) ==
  \/ t.first > s.first /\ t.first - s.first >= 32768
  \/ t.index >= 65536

HeaderLen(st) == IF st.redo \/ st.accept > 0 THEN 1 ELSE 0

MetaEdges(st) == {k \in DOMAIN st.edges : is_meta(st.edges[k].lo)}

\* the slots of the edges of st: one for each char of a meta edge, one for
\* any other edge
EdgeSlots(st) ==
  UNION {{<<k, c>> : c \in (IF k \in MetaEdges(st) THEN st.edges[k].lo..k ELSE {k})} :
           k \in DOMAIN st.edges}

\* C17, as the claim states it: pushing the words of a state with a meta
\* edge lo..hi comes to an end, and the words pushed hold one GOTO for each
\* of the meta chars lo, lo + 1, ..., hi and no word beyond the slots of
\* the edges.
C17_MetaEdgeWords ==
  [][(/\ EmitState
      /\ MetaEdges(states[dfa.current_state]) # {}
      /\ \A k \in DOMAIN states[dfa.current_state].edges :
           states[dfa.current_state].edges[k].target # dfa.current_state)
       => LET st == states[dfa.current_state]
              pushed == (Len(dfa.opcode_table) + 1)..Len(dfa'.opcode_table)
          IN  /\ pc' = "emit"
              /\ \A k \in MetaEdges(st) :
                   \A c \in st.edges[k].lo..k :
                     \E i \in pushed :
                       dfa'.opcode_table[i]
                         = opcode_goto(c, c, ToWord(StateAt(states, st.edges[k].target).index))
              /\ Cardinality(pushed)
                   = HeaderLen(st) + Cardinality(st.tails) + Cardinality(st.heads)
                     + Cardinality(EdgeSlots(st))]_vars

\* C18, as the claim states it: the first pass over a state whose accept
\* id is over ACCEPT_MAX, or that takes the opcode count over
\* GOTO_MAX_IDX, ends with ExceedsLimits, and so does the push of the words
\* of a state with a lookahead id over LOOKAHEAD_MAX_IDX.
C18_LimitsRaiseExceedsLimits ==
  [][/\ (EncodeState /\ states[dfa.current_state].accept > ACCEPT_MAX)
          => parser'.err = "ExceedsLimits"
     /\ (EncodeState /\ dfa'.opcode_count > GOTO_MAX_IDX)
          => parser'.err = "ExceedsLimits"
     /\ (/\ EmitState
         /\ \E i \in states[dfa.current_state].heads \cup states[dfa.current_state].tails :
              i > LOOKAHEAD_MAX_IDX)
          => parser'.err = "ExceedsLimits"]_vars

\* the ranges of the edges hold every byte 0x00..0xFF
Covers(edges) ==
  \A b \in 0..255 : \E k \in DOMAIN edges : edges[k].lo <= b /\ b <= k

\* edges1 is edges with one more edge, to the null state
HaltEdgeInserted(edges, edges1) ==
  \E k \in (DOMAIN edges1) \ (DOMAIN edges) :
    /\ DOMAIN edges1 = (DOMAIN edges) \cup {k}
    /\ edges1[k].target = NullState
    /\ \A j \in DOMAIN edges : edges1[j] = edges[j]

GotoOf(e, k, index) ==
  opcode_goto(e.lo, IF is_meta(e.lo) THEN e.lo ELSE k, index)

\* C20, as the claim states it: once the opcode table is emitted, the
\* index of every state is the offset of its first word in the table,
\* every edge to a state is a GOTO whose target field is that offset (or a
\* GOTO LONG pair whose long index is), and every edge to the null state
\* is a GOTO whose target field is 0xFFFF.
C20_TargetsAreOffsets ==
  pc = "encoded"
    => \A x \in DOMAIN dfa.offsets :
         /\ states[x].index = dfa.offsets[x]
         /\ \A k \in DOMAIN states[x].edges :
              LET e == states[x].edges[k]
              IN  \E i \in SegmentFrom(x)..SegmentTo(x) :
                    IF e.target = NullState
                      THEN dfa.opcode_table[i] = GotoOf(e, k, HALT_MARKER)
                      ELSE \/ dfa.opcode_table[i]
                                = GotoOf(e, k, ToWord(dfa.offsets[e.target]))
                           \/ /\ i < SegmentTo(x)
                              /\ dfa.opcode_table[i] = GotoOf(e, k, LONG_MARKER)
                              /\ op_long_idx(dfa.opcode_table[i + 1])
                                   = dfa.offsets[e.target]

\* the fields of the states that subset construction has settled
Frozen(sts) ==
  [x \in DOMAIN sts |->
     [edges |-> sts[x].edges, heads |-> sts[x].heads, tails |-> sts[x].tails,
      accept |-> sts[x].accept, redo |-> sts[x].redo]]

\* C21, as the claim states it: no step of the predictor and no step of
\* the encoder changes the edges, heads, tails, accept or redo of a state.
C21_StatesFrozenAfterCompile ==
  [][(PredictPrefix \/ PredictLevel \/ EncodeState \/ EncodeDone \/ EmitState
      \/ EmitDone)
       => Frozen(states') = Frozen(states)]_vars

(***************************************************************************)
(* Properties of Position                                                  *)
(***************************************************************************)
\* what the getters of Position return for p
Getters(p) ==
  [idx |-> idx(p), iterations |-> iterations(p), lazy |-> lazy(p),
   is_ticked |-> is_ticked(p), is_greedy |-> is_greedy(p),
   is_anchor |-> is_anchor(p), is_accept |-> is_accept(p)]

\* C22: after a setter the getter of its field returns the argument
\* (after increment_iter on a position whose iteration is 0, iterations()
\* returns the amount), and every other getter, idx() included, returns
\* what it returned before.
C22_PositionSettersOwnField ==
  (pc = "position" /\ made # <<>>)
    => LET c == made[1]
           was == Getters(c.p)
           now == Getters(c.q)
       IN  CASE c.op = "set_accept" -> now = [was EXCEPT !.is_accept = c.arg]
             [] c.op = "set_anchor" -> now = [was EXCEPT !.is_anchor = c.arg]
             [] c.op = "set_greedy" -> now = [was EXCEPT !.is_greedy = c.arg]
             [] c.op = "set_ticked" -> now = [was EXCEPT !.is_ticked = c.arg]
             [] c.op = "set_lazy" -> now = [was EXCEPT !.lazy = c.arg]
             [] c.op = "increment_iter"
                  -> was.iterations = 0 => now = [was EXCEPT !.iterations = c.arg]

\* set_lazy(24) has been called on a position with every flag set, a lazy
\* byte of its own and the iteration 0xFFFF
C22_LazySetOnFlaggedPosition ==
  /\ pc = "position"
  /\ made # <<>>
  /\ made[1].op = "set_lazy"
  /\ made[1].arg = 24
  /\ Getters(made[1].p) = [idx |-> 65, iterations |-> 65535, lazy |-> 127,
                           is_ticked |-> TRUE, is_greedy |-> TRUE,
                           is_anchor |-> TRUE, is_accept |-> TRUE]

(***************************************************************************)
(* Properties of the moves of compile_transition                           *)
(***************************************************************************)
\* the moves mv over the cells of ps are the subset construction of the
\* calls cs: each character lies in at most one move, in one if a call
\* holds it, and the positions of that move are the union of the followpos
\* sets of the calls that hold the character
SubsetConstruction(ps, mv, cs) ==
  \A c \in UNION MoveChars :
    LET want == UNION {cs[j].follow : j \in {i \in 1..Len(cs) : c \in cs[i].chars}}
        with == {i \in 1..Len(mv) : c \in mv[i].chars}
    IN  /\ Cardinality(with) <= 1
        /\ want # {} => with # {}
        /\ \A i \in with : ps.follow[mv[i].positions] = want

\* C23 for transition() itself: every call of transition() returns, and
\* after the last call for the positions of a state the moves are the
\* subset construction of the calls.
C23_TransitionIsSubsetConstruction ==
  [][TransitionCall
       => /\ pc' = "merge"
          /\ todo' = <<>> => SubsetConstruction(parser', moves', made)]_vars

(***************************************************************************)
(* Properties of the parser                                                *)
(***************************************************************************)
\* The followpos construction of the textbook on a regex of letters,
\* groups and alternations, read from the index i on.  A result is
\* [ok, i, nullable, first, last, follow]: i the index behind what was
\* read, follow the set of the pairs <<k, p>> with p in followpos(k).
Epsilon(i) ==
  [ok |-> TRUE, i |-> i, nullable |-> TRUE, first |-> {}, last |-> {}, follow |-> {}]
Letter(i) ==
  [ok |-> TRUE, i |-> i + 1, nullable |-> FALSE, first |-> {Pos(i)}, last |-> {Pos(i)},
   follow |-> {}]
Concat(A, B) ==
  [ok |-> A.ok /\ B.ok, i |-> B.i,
   nullable |-> A.nullable /\ B.nullable,
   first |-> A.first \cup (IF A.nullable THEN B.first ELSE {}),
   last |-> B.last \cup (IF B.nullable THEN A.last ELSE {}),
   follow |-> A.follow \cup B.follow \cup (A.last \X B.first)]
Either(A, B) ==
  [ok |-> A.ok /\ B.ok, i |-> B.i,
   nullable |-> A.nullable \/ B.nullable,
   first |-> A.first \cup B.first,
   last |-> A.last \cup B.last,
   follow |-> A.follow \cup B.follow]

RECURSIVE TextbookAlt(_, _)
RECURSIVE TextbookSeq(_, _)
TextbookAtom(rx, i) ==
  IF rx[i + 1] # Byte["("] THEN Letter(i)
  ELSE LET G == TextbookAlt(rx, i + 1)
       IN  [G EXCEPT !.ok = G.ok /\ G.i < Len(rx) /\ rx[G.i + 1] = Byte[")"],
                     !.i = G.i + 1]
TextbookSeq(rx, i) ==
  IF i >= Len(rx) \/ rx[i + 1] \in {Byte["|"], Byte[")"]} THEN Epsilon(i)
  ELSE LET A == TextbookAtom(rx, i)
       IN  IF ~A.ok THEN A ELSE Concat(A, TextbookSeq(rx, A.i))
TextbookAlt(rx, i) ==
  LET A == TextbookSeq(rx, i)
  IN  IF A.ok /\ A.i < Len(rx) /\ rx[A.i + 1] = Byte["|"]
        THEN Either(A, TextbookAlt(rx, A.i + 1))
        ELSE A
\* the regex as a whole: a concatenation, every | inside a group
Textbook(rx) ==
  LET A == TextbookSeq(rx, 0) IN [A EXCEPT !.ok = A.ok /\ A.i = Len(rx)]

\* A regex without any group is a string alternative, which parse()
\* puts into the trie and not into followpos.
HasGroup(rx) == \E i \in 1..Len(rx) : rx[i] = Byte["("]

\* C24, as the claim states it: for a regex of letters, groups and
\* alternations inside groups that parse() accepts, nullable, the first
\* positions and the last positions are those of the textbook
\* construction, and followpos of every position includes the first
\* positions of what follows it.
C24_TextbookFollowpos ==
  (/\ pc = "parsed"
   /\ parser.regex \in GroupRegexes \cup AltRegexes
   /\ HasGroup(parser.regex)
   /\ Textbook(parser.regex).ok)
    => LET T == Textbook(parser.regex)
       IN  /\ parser.group.nullable = T.nullable
           /\ {p \in parser.start_positions : ~is_accept(p)} = T.first
           /\ {p \in parser.group.last_positions : ~is_accept(p)} = T.last
           /\ \A kp \in T.follow :
                /\ kp[1] \in DOMAIN parser.follow
                /\ kp[2] \in parser.follow[kp[1]]


\* a group of three alternatives between two letters has been parsed
C24_ThreeAlternativesParsed ==
  /\ pc = "parsed"
  /\ parser.regex = Rx(<<"a", "(", "a", "|", "b", "|", "a", "b", ")", "b">>)
  /\ parser.follow[Pos(0)] = {Pos(2), Pos(4), Pos(6)}
  /\ Textbook(parser.regex).follow # {}

(***************************************************************************)
(* Properties of compile_transition                                        *)
(***************************************************************************)
\* a byte of the regex that is no metacharacter of compile_transition
Ordinary(ps, k) ==
  /\ ~is_accept(k)
  /\ idx(k) < Len(ps.regex)
  /\ at(ps, idx(k)) \notin {46, 94, 36, 91, 40, 41, ps.options.escape_character}

\* C25, as the claim states it: for a position k of the state being
\* compiled whose byte c is an ordinary character and which has a follow
\* set, compile_transition derives the character set {c}, with the
\* case-toggled c added exactly when c is alphabetic and mode i is set at
\* the index of k.
C25_OrdinaryCharSet ==
  (pc = "transition" /\ todo # <<>> /\ Ordinary(parser, Head(todo))
     /\ ~FollowOf(parser, Head(todo), states[state].positions).skip)
    => LET k == Head(todo)
           c == at(parser, idx(k))
       IN  CharsOf(parser, k).chars =
             {c} \cup (IF is_alphabetic(c) /\ is_set(parser.modifiers, idx(k), "i")
                         THEN {toggle_case(c)} ELSE {})


\* C26, as the claim states it: in a regex of one top-level alternative no
\* two lazy quantifiers are given the same lazy tag.
C26_LazyTagsDistinct ==
  (pc = "parsed" /\ parser.regex \in LazyRegexes)
    => \A i, j \in 1..Len(parser.lazy_tags) :
         i # j => parser.lazy_tags[i][2] # parser.lazy_tags[j][2]


\* the indexes of the letters of a regex inside its (?-i:X), from the
\* colon to the closing parenthesis, and of the letters outside it
InScope(rx, i) ==
  \E c \in 1..Len(rx) :
    /\ rx[c] = Byte[":"]
    /\ c < i + 1
    /\ \A j \in c..(i + 1) : rx[j] # Byte[")"]
Letters(rx) == {i \in 0..(Len(rx) - 1) : rx[i + 1] \in {Byte["a"], Byte["b"]}}
Inside(rx) == {i \in Letters(rx) : InScope(rx, i)}
Outside(rx) == Letters(rx) \ Inside(rx)

\* C27, as the claim states it: with the global option i and one scoped
\* (?-i:X), after parse() mode i is not set at any index inside X and is
\* set at every letter outside X.
C27_ScopedDisableOverridesGlobal ==
  (pc = "parsed" /\ parser.regex \in ModeRegexes /\ parser.options.insensitive_case)
    => /\ \A i \in Inside(parser.regex) : ~is_set(parser.modifiers, i, "i")
       /\ \A i \in Outside(parser.regex) : is_set(parser.modifiers, i, "i")


\* a `)` that closes no group
Unmatched(rx) ==
  \E n \in 1..Len(rx) : rx[n] = Byte[")"] /\ Open(rx, n - 1) = 0

\* C28, as the claim states it: when parse() returns without an error the
\* cursor is at or behind the end of the regex, and a regex with a `)`
\* that closes no group is not accepted.
C28_ParseConsumesWholeRegex ==
  (pc = "parsed" /\ parser.regex \in GroupRegexes)
    => /\ parser.idx >= Len(parser.regex)
       /\ ~Unmatched(parser.regex)


\* C29, as the claim states it: a step of compile_transition leaves the
\* position set of every key the follow map has unchanged; it only adds
\* keys.
C29_FollowEntriesUnchanged ==
  [][CompileTransitionStep
       => \A q \in DOMAIN parser.follow :
            q \in DOMAIN parser'.follow /\ parser'.follow[q] = parser.follow[q]]_vars


\* every position the parser has put into the start positions, the last
\* positions or the follow map
Inserted(ps) ==
  ps.start_positions \cup ps.group.last_positions \cup DOMAIN ps.follow
    \cup UNION {ps.follow[q] : q \in DOMAIN ps.follow}

\* C30, as the claim states it: every non-accept position the parser has
\* inserted has an index smaller than the length of the regex.
C30_PositionIndexIsOffset ==
  pc = "parsed"
    => \A p \in Inserted(parser) : ~is_accept(p) => idx(p) < Len(parser.regex)

=============================================================================
